---- MODULE Spec2Model ----
(***************************************************************************)
(* Model of the ptime backend's real-time gateway                          *)
(* (app/services/websocket_manager.py), of the cache-backed presence       *)
(* monitor it drives (app/services/participant_monitor.py over             *)
(* app/core/redis_client.py), of the message service                       *)
(* (app/services/message_service.py, app/api/messages.py) and of the       *)
(* session service (app/services/session.py, app/api/sessions.py).         *)
(*                                                                         *)
(* Scheduling: handlers are coroutines on one event loop.  A handler runs  *)
(* without interruption up to an `await self.sio.emit(...)`, where it may  *)
(* be suspended; storage (SQLAlchemy Session) and cache (redis-py) calls   *)
(* are synchronous, and `await create_message(...)` awaits a coroutine     *)
(* that never suspends.  A handler is modelled by a step operator: one     *)
(* application is one such uninterrupted run of handler code, from the     *)
(* handler's start or from the return of an emit to the next emit or to    *)
(* the handler's end, and returns the state it leaves and the events it    *)
(* emitted.  A suspended handler is a record in `tasks`.                   *)
(***************************************************************************)
EXTENDS Integers, Sequences, FiniteSets, Bags, TLC

VARIABLES
    clock,               \* datetime.utcnow(), in seconds
    transport,           \* per connection id: the transport's view of the client
    active_connections,  \* WebSocketManager.active_connections: sid -> connection_info
    session_rooms,       \* WebSocketManager.session_rooms: session_id -> set(sid)
    sio_rooms,           \* the Socket.IO server's rooms "session_<id>" -> set(sid)
    tasks,               \* the bag of handlers suspended at an await, and of requests
                         \* in flight in worker threads between two statements
    redis,               \* the key-value store: presence sets, status records, message caches
    db_messages,         \* rows of table "messages", in commit order
    msg_seq,             \* number of message ids generated so far
    delivered,           \* new_message events broadcast so far, in broadcast order
    db_sessions,         \* rows of table "sessions"
    db_participants,     \* rows of table "participants"
    id_seq,              \* number of session and participant ids generated so far
    db_users,            \* rows of table "users"
    oauth_sessions,      \* OAuthSessionManager._sessions: state -> flow state
    responses,           \* responses returned by the OAuth callback so far, in order
    migrate,             \* the migrate.py process: argv, answers, engine calls, exit
    qr                   \* a scanned text and what verify_qr_code_data made of it

vars == <<clock, transport, active_connections, session_rooms, sio_rooms, tasks,
          redis, db_messages, msg_seq, delivered, db_sessions, db_participants, id_seq,
          db_users, oauth_sessions, responses, migrate, qr>>

----
\* Bounds of the model

\* send_message events that store or broadcast a message
MaxSends == 2
\* handlers suspended at the same time
MaxTasks == 2
\* seconds by which one Tick advances the clock
TickStep == 100
\* Tick is disabled from this clock value on
MaxClock == 700
\* messages stored where reads, edits and deletions are interleaved
MaxMessages == 2
\* messages stored where pages are read
MaxPaged == 3
\* edits of messages
MaxEdits == 1
\* sessions created
MaxSessions == 2
\* participants that join sessions durably
MaxParticipants == 1
\* join requests accepted or in flight where joins are interleaved
MaxJoins == 2
\* callbacks of the provider login begun
MaxCallbacks == 2
\* leading elements of a scanned text before its code characters
MaxHead == 2
\* create requests begun
MaxCreates == 3

----
\* Values

None == "None"
\* A dict with no keys
EmptyMap == [k \in {} |-> None]
\* dict without key k (del d[k])
Without(d, k) == [x \in DOMAIN d \ {k} |-> d[x]]
\* dict with d[k] = v
With(d, k, v) == [x \in DOMAIN d \cup {k} |-> IF x = k THEN v ELSE d[x]]
Sids == {"c1", "c2"}
SessionIds == {"s1", "s2"}
ParticipantIds == {"p1", "p2"}
\* "ann" is a plain nickname, "a&b" holds a character MessageCreate prohibits
Nicknames == {"ann", "a&b"}

\* Python truthiness of a payload field: None (missing) and "" are falsy
Falsy(x) == x \in {None, ""}

\* Message texts are sequences of symbols; " " is whitespace, "<script" stands for
\* a forbidden substring, every other symbol for ordinary text
Texts == { <<>>, <<" ">>, <<"a">>, <<" ", "a", " ">>, <<"<script">> }

\* join_session payloads of a connection.  The first connection presents "p1" and
\* joins either session, so it can move from one session to the other and back; the
\* second joins "s1" under either participant id, so sharing one id and using
\* different ids both occur.  One payload has a nickname MessageCreate rejects, and
\* four have a missing or empty field.
JoinPayloads(sid) ==
    [session_id : IF sid = "c1" THEN SessionIds ELSE {"s1"},
     participant_id : IF sid = "c1" THEN {"p1"} ELSE ParticipantIds,
     nickname : {"ann"}]
    \cup { [session_id |-> "s1", participant_id |-> "p1", nickname |-> "a&b"],
           [session_id |-> "", participant_id |-> "p1", nickname |-> "ann"],
           [session_id |-> "s1", participant_id |-> None, nickname |-> "ann"],
           [session_id |-> "s1", participant_id |-> "p1", nickname |-> ""],
           [session_id |-> None, participant_id |-> None, nickname |-> None] }

RECURSIVE lstrip(_)
lstrip(t) == IF t # <<>> /\ Head(t) = " " THEN lstrip(Tail(t)) ELSE t

RECURSIVE rstrip(_)
rstrip(t) == IF t # <<>> /\ t[Len(t)] = " " THEN rstrip(SubSeq(t, 1, Len(t) - 1)) ELSE t

\* The text is used as typed
strip_nothing(t) == t

\* str.strip()
strip(t) == rstrip(lstrip(t))

\* ParticipantMonitor.default_ttl
default_ttl == 300
\* MessageCreate field limits
content_max_length == 1000
nickname_max_length == 50
\* MessageService._cache_recent_message keeps this many entries
recent_cap == 50
\* MessageService.message_cache_ttl, and the TTL of cached statistics
message_cache_ttl == 3600
stats_cache_ttl == 300

forbidden_chars == {"<script", "</script", "javascript:", "data:"}
prohibited_chars == {"<", ">", "\"", "'", "&", "\n", "\r", "\t"}

\* MessageCreate.validate_content and the field's length limits
validate_content(v) ==
    /\ Len(v) >= 1
    /\ Len(v) <= content_max_length
    /\ strip(v) # <<>>
    /\ \A i \in 1..Len(v) : v[i] \notin forbidden_chars

\* The characters of a nickname of the model
chars(n) ==
    CASE n = "ann" -> <<"a", "n", "n">>
      [] n = "a&b" -> <<"a", "&", "b">>
      [] OTHER -> <<>>

\* MessageCreate.validate_nickname and the field's length limits
validate_nickname(n) ==
    /\ ~Falsy(n)
    /\ Len(chars(n)) >= 1
    /\ Len(chars(n)) <= nickname_max_length
    /\ \A i \in 1..Len(chars(n)) : chars(n)[i] \notin prohibited_chars

\* MessageCreate(...) is constructed without a validation error
MessageCreate_ok(session_id, participant_id, nickname, content) ==
    /\ ~Falsy(session_id)
    /\ ~Falsy(participant_id)
    /\ validate_nickname(nickname)
    /\ validate_content(content)

----
\* The key-value store (RedisClient over a connected server)

NoRecord == [present |-> FALSE]
NoExpiry == -1

\* RedisClient's `if not self.client`: without a client every operation returns
\* its default and nothing is stored
connected(r) == r.client # None

\* SADD: a set key created by SADD has no expiry
sadd(r, s, p) ==
    IF ~connected(r) THEN r
    ELSE [r EXCEPT !.members[s] = @ \cup {p},
                   !.members_exp[s] = IF r.members[s] = {} THEN NoExpiry ELSE @]

\* EXPIRE on an existing key
expire(r, s, seconds, now) ==
    IF r.members[s] = {} THEN r ELSE [r EXCEPT !.members_exp[s] = now + seconds]

\* SREM: a set that becomes empty is deleted with its expiry
srem(r, s, p) ==
    [r EXCEPT !.members[s] = @ \ {p},
              !.members_exp[s] = IF r.members[s] \ {p} = {} THEN NoExpiry ELSE @]

smembers(r, s) == r.members[s]

scard(r, s) == Cardinality(r.members[s])

\* Keys whose time to live has run out are gone
Expired(exp, now) == exp # NoExpiry /\ exp <= now

purge(r, now) ==
    [r EXCEPT
        !.members = [s \in SessionIds |->
                        IF Expired(r.members_exp[s], now) THEN {} ELSE r.members[s]],
        !.members_exp = [s \in SessionIds |->
                        IF Expired(r.members_exp[s], now) THEN NoExpiry ELSE r.members_exp[s]],
        !.status = [p \in ParticipantIds |->
                        IF r.status[p].present /\ Expired(r.status[p].exp, now)
                        THEN NoRecord ELSE r.status[p]],
        !.recent = [s \in SessionIds |->
                        IF Expired(r.recent_exp[s], now) THEN <<>> ELSE r.recent[s]],
        !.recent_exp = [s \in SessionIds |->
                        IF Expired(r.recent_exp[s], now) THEN NoExpiry ELSE r.recent_exp[s]],
        !.message = [id \in {i \in DOMAIN r.message : ~Expired(r.message[i].exp, now)}
                        |-> r.message[id]],
        !.stats = [s \in SessionIds |->
                        IF r.stats[s].present /\ Expired(r.stats[s].exp, now)
                        THEN NoRecord ELSE r.stats[s]]]

----
\* ParticipantMonitor

set_status(r, p, session_id, nickname, joined_at, now) ==
    IF ~connected(r) THEN r
    ELSE [r EXCEPT !.status[p] = [present |-> TRUE, session_id |-> session_id,
                                  nickname |-> nickname, joined_at |-> joined_at,
                                  last_seen |-> now, exp |-> now + default_ttl]]

add_participant(r, s, p, nickname, now) ==
    set_status(expire(sadd(r, s, p), s, default_ttl, now), p, s, nickname, now, now)

remove_participant(r, s, p) ==
    [srem(r, s, p) EXCEPT !.status[p] = NoRecord]

update_heartbeat(r, p, now) ==
    IF ~r.status[p].present THEN r
    ELSE set_status(r, p, r.status[p].session_id, r.status[p].nickname,
                    r.status[p].joined_at, now)

\* One entry per member id whose status record exists
get_session_participants(r, s, now) ==
    { [id |-> p, nickname |-> r.status[p].nickname,
       is_online |-> (now - r.status[p].last_seen) < default_ttl] :
      p \in {q \in smembers(r, s) : r.status[q].present} }

get_participant_count(r, s) == scard(r, s)

get_online_participant_count(r, s, now) ==
    Cardinality({e \in get_session_participants(r, s, now) : e.is_online})

----
\* The gateway's state as one value, for the handlers' step operators

Cur == [transport |-> transport, active_connections |-> active_connections,
        session_rooms |-> session_rooms, sio_rooms |-> sio_rooms, redis |-> redis,
        db_messages |-> db_messages, msg_seq |-> msg_seq, delivered |-> delivered]

Becomes(st) ==
    /\ transport' = st.transport
    /\ active_connections' = st.active_connections
    /\ session_rooms' = st.session_rooms
    /\ sio_rooms' = st.sio_rooms
    /\ redis' = st.redis
    /\ db_messages' = st.db_messages
    /\ msg_seq' = st.msg_seq
    /\ delivered' = st.delivered
    /\ UNCHANGED <<db_sessions, db_participants, id_seq,
          db_users, oauth_sessions, responses, migrate, qr>>

\* A handler invocation: handler name, connection id, position, payload, and the
\* locals the handler reads from the connection's binding when it starts
Task(h, sid, data) ==
    [h |-> h, sid |-> sid, pc |-> "start", data |-> data,
     session_id |-> None, participant_id |-> None, nickname |-> None]

\* What a step operator returns: the state, the events emitted, the handler's position
Result(st, evs, t) == [st |-> st, evs |-> evs, t |-> t]

At(t, pc) == [t EXCEPT !.pc = pc, !.data = None]

Done(t) == At(t, "done")

----
\* Events

\* Connections reached by an emit to room=sid
ToSid(st, sid) == IF st.transport[sid] \in {"connected", "closing"} THEN {sid} ELSE {}

\* Connections reached by an emit to room="session_<s>"
ToRoom(st, s) == st.sio_rooms[s]

\* WebSocketManager._emit_participant_count_update
emit_participant_count_update(st, s, now) ==
    [event |-> "participant_count_updated", to |-> ToRoom(st, s), session_id |-> s,
     total_count |-> get_participant_count(st.redis, s),
     online_count |-> get_online_participant_count(st.redis, s, now)]

error_event(st, sid) == [event |-> "error", to |-> ToSid(st, sid)]

----
\* WebSocketManager event handlers

\* The transport drops a closed connection from every room
sio_disconnect(rooms, sid) == [s \in SessionIds |-> rooms[s] \ {sid}]

\* The room set is left as it was
discard_room_forgotten(rooms, s, sid) == rooms

\* set.discard on session_rooms[session_id], guarded by `session_id in self.session_rooms`
discard_room(rooms, s, sid) ==
    IF s \in DOMAIN rooms THEN [rooms EXCEPT ![s] = @ \ {sid}] ELSE rooms

connect(st, now, t) ==
    LET st1 == [st EXCEPT
                  !.transport[t.sid] = "connected",
                  !.active_connections = With(st.active_connections, t.sid,
                        [connected_at |-> now, session_id |-> None,
                         participant_id |-> None, nickname |-> None])]
    IN  Result(st1, <<[event |-> "connected", to |-> ToSid(st1, t.sid)]>>, Done(t))

\* The end of disconnect: presence and the connection's record are removed, and the
\* transport forgets the connection
disconnect_end(st, t, s, p) ==
    Result([st EXCEPT
              !.redis = IF ~Falsy(s) /\ ~Falsy(p) THEN remove_participant(st.redis, s, p)
                        ELSE st.redis,
              !.active_connections = Without(st.active_connections, t.sid),
              !.transport[t.sid] = "gone",
              !.sio_rooms = sio_disconnect(st.sio_rooms, t.sid)],
           <<>>, Done(t))

disconnect(st, now, t) ==
    IF t.pc = "start"
    THEN IF t.sid \notin DOMAIN st.active_connections
         THEN Result([st EXCEPT !.transport[t.sid] = "gone",
                                !.sio_rooms = sio_disconnect(st.sio_rooms, t.sid)],
                     <<>>, Done(t))
         ELSE LET info == st.active_connections[t.sid]
                  s == info.session_id
                  p == info.participant_id
                  st1 == [st EXCEPT !.transport[t.sid] = "closing"]
              IN  IF ~Falsy(s) /\ s \in DOMAIN st.session_rooms
                  THEN LET st2 == [st1 EXCEPT
                                     !.session_rooms = discard_room(st.session_rooms, s, t.sid)]
                       IN  Result(st2, <<emit_participant_count_update(st2, s, now)>>,
                                  [At(t, "count_updated") EXCEPT
                                      !.session_id = s, !.participant_id = p])
                  ELSE disconnect_end(st1, t, s, p)
    ELSE disconnect_end(st, t, t.session_id, t.participant_id)

\* The nickname is left out of the check
all_present_but_nickname(session_id, participant_id, nickname) ==
    ~Falsy(session_id) /\ ~Falsy(participant_id)

\* all([session_id, participant_id, nickname])
all_present(session_id, participant_id, nickname) ==
    ~Falsy(session_id) /\ ~Falsy(participant_id) /\ ~Falsy(nickname)

join_session(st, now, t) ==
    IF t.pc = "start"
    THEN LET session_id == t.data.session_id
             participant_id == t.data.participant_id
             nickname == t.data.nickname
         IN  IF ~all_present(session_id, participant_id, nickname)
             THEN Result(st, <<error_event(st, t.sid)>>, Done(t))
             ELSE LET st1 == [st EXCEPT
                        !.active_connections =
                            IF t.sid \in DOMAIN st.active_connections
                            THEN [@ EXCEPT ![t.sid] =
                                    [@ EXCEPT !.session_id = session_id,
                                              !.participant_id = participant_id,
                                              !.nickname = nickname]]
                            ELSE @,
                        !.sio_rooms[session_id] = @ \cup {t.sid},
                        !.session_rooms = With(st.session_rooms, session_id,
                            (IF session_id \in DOMAIN st.session_rooms
                             THEN st.session_rooms[session_id] ELSE {}) \cup {t.sid}),
                        !.redis = add_participant(st.redis, session_id, participant_id,
                                                  nickname, now)]
                  IN  Result(st1,
                             <<[event |-> "session_joined", to |-> ToSid(st1, t.sid),
                                session_id |-> session_id,
                                participant_id |-> participant_id]>>,
                             [At(t, "session_joined") EXCEPT
                                 !.session_id = session_id,
                                 !.participant_id = participant_id,
                                 !.nickname = nickname])
    ELSE IF t.pc = "session_joined"
    THEN Result(st, <<[event |-> "participant_joined",
                       to |-> ToRoom(st, t.session_id) \ {t.sid},
                       participant_id |-> t.participant_id, nickname |-> t.nickname]>>,
                At(t, "participant_joined"))
    ELSE Result(st, <<emit_participant_count_update(st, t.session_id, now)>>, Done(t))

leave_session(st, now, t) ==
    IF t.pc = "start"
    THEN IF t.sid \notin DOMAIN st.active_connections
         THEN Result(st, <<>>, Done(t))
         ELSE LET info == st.active_connections[t.sid]
                  s == info.session_id
                  p == info.participant_id
                  n == info.nickname
              IN  IF Falsy(s)
                  THEN Result(st, <<>>, Done(t))
                  ELSE LET st1 == [st EXCEPT
                                !.sio_rooms[s] = @ \ {t.sid},
                                !.session_rooms = discard_room(st.session_rooms, s, t.sid),
                                !.redis = IF ~Falsy(p) THEN remove_participant(st.redis, s, p)
                                          ELSE st.redis]
                           t1 == [t EXCEPT !.session_id = s, !.participant_id = p,
                                           !.nickname = n]
                       IN  IF ~Falsy(n)
                           THEN Result(st1, <<[event |-> "participant_left",
                                               to |-> ToRoom(st1, s),
                                               participant_id |-> p, nickname |-> n]>>,
                                       At(t1, "participant_left"))
                           ELSE Result(st1, <<emit_participant_count_update(st1, s, now)>>,
                                       At(t1, "count_updated"))
    ELSE IF t.pc = "participant_left"
    THEN Result(st, <<emit_participant_count_update(st, t.session_id, now)>>,
                At(t, "count_updated"))
    ELSE Result([st EXCEPT
                   !.active_connections =
                        IF t.sid \in DOMAIN st.active_connections
                        THEN [@ EXCEPT ![t.sid] =
                                [@ EXCEPT !.session_id = None, !.participant_id = None,
                                          !.nickname = None]]
                        ELSE @],
                <<>>, Done(t))

heartbeat(st, now, t) ==
    IF /\ t.sid \in DOMAIN st.active_connections
       /\ ~Falsy(st.active_connections[t.sid].participant_id)
    THEN Result([st EXCEPT !.redis = update_heartbeat(
                        st.redis, st.active_connections[t.sid].participant_id, now)],
                <<[event |-> "heartbeat_ack", to |-> ToSid(st, t.sid)]>>, Done(t))
    ELSE Result(st, <<>>, Done(t))

get_participant_list(st, now, t) ==
    IF /\ t.sid \in DOMAIN st.active_connections
       /\ ~Falsy(st.active_connections[t.sid].session_id)
    THEN LET participants == get_session_participants(
                    st.redis, st.active_connections[t.sid].session_id, now)
         IN  Result(st, <<[event |-> "participant_list", to |-> ToSid(st, t.sid),
                           participants |-> participants,
                           total_count |-> Cardinality(participants),
                           online_count |-> Cardinality({e \in participants : e.is_online})]>>,
                    Done(t))
    ELSE Result(st, <<>>, Done(t))

----
\* MessageService.create_message and the send_message handler

\* Message.to_websocket_format
to_websocket_format(row) ==
    [id |-> row.id, participant_id |-> row.participant_id, nickname |-> row.nickname,
     message |-> row.content, timestamp |-> row.created_at, type |-> row.message_type]

\* MessageService._cache_recent_messages: the key is set with the cache TTL
cache_recent_messages(r, s, messages, now) ==
    IF ~connected(r) THEN r
    ELSE [r EXCEPT !.recent[s] = messages, !.recent_exp[s] = now + message_cache_ttl]

\* MessageService._cache_recent_message: newest first, at most recent_cap entries
cache_recent_message(r, row, now) ==
    LET cached == <<to_websocket_format(row)>> \o r.recent[row.session_id]
    IN  cache_recent_messages(r, row.session_id,
            IF Len(cached) > recent_cap THEN SubSeq(cached, 1, recent_cap) ELSE cached,
            now)

\* A nullable DateTime column that holds no time (NULL)
NoTime == -1

\* A row of table "messages" as Message(...) and the column defaults make it
Message(id, session_id, participant_id, nickname, content, now) ==
    [id |-> id, session_id |-> session_id, participant_id |-> participant_id,
     nickname |-> nickname, content |-> content, message_type |-> "user_message",
     is_deleted |-> FALSE, is_edited |-> FALSE, edit_count |-> 0,
     created_at |-> now, updated_at |-> now, deleted_at |-> NoTime]

\* MessageService.create_message when db.add, db.commit and db.refresh succeed:
\* the row is stored and put at the head of the session's recent-message cache
create_message(st, row, now) ==
    [st EXCEPT !.msg_seq = row.id,
               !.db_messages = Append(@, row),
               !.redis = cache_recent_message(@, row, now)]

\* The record kept of a new_message broadcast
sent(s, data, durable) ==
    [id |-> data.id, session_id |-> s, participant_id |-> data.participant_id,
     nickname |-> data.nickname, message |-> data.message, durable |-> durable]

\* The fallback broadcast loses the sender
fallback_message_anonymous(id, participant_id, nickname, message_content, now) ==
    [id |-> id, participant_id |-> None, nickname |-> nickname,
     message |-> message_content, timestamp |-> now, type |-> "user_message"]

\* The ad-hoc message shape broadcast when storing fails
fallback_message(id, participant_id, nickname, message_content, now) ==
    [id |-> id, participant_id |-> participant_id, nickname |-> nickname,
     message |-> message_content, timestamp |-> now, type |-> "user_message"]

\* The newest broadcast overtakes the earlier ones
broadcast_newest_first(log, m) == <<m>> \o log

\* The log of new_message broadcasts after one more
broadcast(log, m) == Append(log, m)

\* t.data.message is the payload's text; t.data.db_ok tells whether db.add, db.commit
\* and db.refresh succeed
send_message(st, now, t) ==
    IF t.pc = "start"
    THEN IF t.sid \notin DOMAIN st.active_connections
         THEN Result(st, <<>>, Done(t))
         ELSE LET info == st.active_connections[t.sid]
                  s == info.session_id
                  p == info.participant_id
                  n == info.nickname
                  message_content == strip(t.data.message)
                  id == st.msg_seq + 1
                  row == Message(id, s, p, n, strip(message_content), now)
                  websocket_data == to_websocket_format(row)
                  fallback_data == fallback_message(id, p, n, message_content, now)
                  new_message(data) ==
                      [event |-> "new_message", to |-> ToRoom(st, s), session_id |-> s,
                       data |-> data]
                  t1 == [At(t, "new_message") EXCEPT !.session_id = s,
                                                     !.participant_id = p, !.nickname = n]
              IN  IF Falsy(s)
                  THEN Result(st, <<error_event(st, t.sid)>>, Done(t))
                  ELSE IF message_content = <<>>
                  THEN Result(st, <<>>, Done(t))
                  ELSE IF ~MessageCreate_ok(s, p, n, message_content)
                  THEN Result(st, <<>>, Done(t))
                  ELSE IF t.data.db_ok
                  THEN Result([create_message(st, row, now) EXCEPT
                                 !.delivered = broadcast(@, sent(s, websocket_data, TRUE))],
                              <<new_message(websocket_data)>>, t1)
                  ELSE Result([st EXCEPT
                                 !.msg_seq = id,
                                 !.delivered = broadcast(@, sent(s, fallback_data, FALSE))],
                              <<new_message(fallback_data)>>, t1)
    ELSE Result([st EXCEPT !.redis = update_heartbeat(@, t.participant_id, now)],
                <<>>, Done(t))

----
\* MessageService read, update and delete paths, and the bulk clear of app/api/messages.py

\* What a service call returns: the state it leaves and its return value.  Where the
\* code returns an object or None, None is NoRecord here.
Ret(st, ret) == [st |-> st, ret |-> ret]

Min(a, b) == IF a <= b THEN a ELSE b

\* Message.to_dict
to_dict(row) ==
    [id |-> row.id, session_id |-> row.session_id, participant_id |-> row.participant_id,
     nickname |-> row.nickname, message |-> row.content, type |-> row.message_type,
     timestamp |-> row.created_at, is_edited |-> row.is_edited,
     edit_count |-> row.edit_count, is_deleted |-> row.is_deleted]

\* MessageResponse(**data): the fields of the schema, read from a dict
MessageResponse(data) ==
    [id |-> data.id, session_id |-> data.session_id,
     participant_id |-> data.participant_id, nickname |-> data.nickname,
     message |-> data.message, type |-> data.type, timestamp |-> data.timestamp,
     is_edited |-> data.is_edited, edit_count |-> data.edit_count,
     is_deleted |-> data.is_deleted]

\* The fields of MessageResponse that have no default
MessageResponse_required ==
    {"id", "session_id", "participant_id", "nickname", "message", "type", "timestamp"}

\* MessageResponse.from_orm(message) reads each field as an attribute of the row and
\* raises a validation error when a required one is missing: a row has content,
\* message_type and created_at, not message, type and timestamp
from_orm_ok(row) == MessageResponse_required \subseteq DOMAIN row

\* MessageService._cache_message
cache_message(r, row, now) ==
    IF ~connected(r) THEN r
    ELSE [r EXCEPT !.message = With(@, row.id, [data |-> to_dict(row),
                                                exp |-> now + message_cache_ttl])]

\* MessageService._get_cached_message: None when the key is absent
get_cached_message(r, id, now) ==
    IF id \in DOMAIN r.message /\ ~Expired(r.message[id].exp, now)
    THEN MessageResponse(r.message[id].data)
    ELSE NoRecord

\* MessageService._remove_cached_message
remove_cached_message(r, id) == [r EXCEPT !.message = Without(@, id)]

\* The recent-message cache is kept on invalidation
invalidate_recent_messages_cache_skipped(r, s) == r

\* MessageService._invalidate_recent_messages_cache
invalidate_recent_messages_cache(r, s) ==
    [r EXCEPT !.recent[s] = <<>>, !.recent_exp[s] = NoExpiry]

\* The first of the row indices I that pass a filter, 0 when there is none (.first())
first_index(I) == IF I = {} THEN 0 ELSE CHOOSE i \in I : \A j \in I : i <= j

\* The row filter is applied without the participant
own_message_of_anyone(row, message_id, participant_id) ==
    row.id = message_id /\ ~row.is_deleted

\* The row filter of update_message and delete_message
own_message(row, message_id, participant_id) ==
    /\ row.id = message_id
    /\ row.participant_id = participant_id
    /\ ~row.is_deleted

\* MessageService.get_message: the cache first, then the rows that are not deleted
get_message(st, message_id, now) ==
    LET cached == get_cached_message(st.redis, message_id, now)
        i == first_index({k \in 1..Len(st.db_messages) :
                             /\ st.db_messages[k].id = message_id
                             /\ ~st.db_messages[k].is_deleted})
    IN  IF cached # NoRecord THEN Ret(st, cached)
        ELSE IF i = 0 THEN Ret(st, NoRecord)
        ELSE LET message == st.db_messages[i]
                 st1 == [st EXCEPT !.redis = cache_message(@, message, now)]
             IN  IF from_orm_ok(message)
                 THEN Ret(st1, MessageResponse(to_dict(message)))
                 ELSE Ret(st1, NoRecord)

\* MessageService.update_message
update_message(st, message_id, participant_id, content, now) ==
    LET i == first_index({k \in 1..Len(st.db_messages) :
                             own_message(st.db_messages[k], message_id, participant_id)})
    IN  IF i = 0 THEN Ret(st, NoRecord)
        ELSE LET message == [st.db_messages[i] EXCEPT
                                !.content = content, !.is_edited = TRUE,
                                !.edit_count = @ + 1, !.updated_at = now]
                 st1 == [st EXCEPT
                           !.db_messages[i] = message,
                           !.redis = invalidate_recent_messages_cache(
                                         cache_message(@, message, now),
                                         message.session_id)]
             IN  IF from_orm_ok(message)
                 THEN Ret(st1, MessageResponse(to_dict(message)))
                 ELSE Ret(st1, NoRecord)

\* MessageService.delete_message: a soft delete
delete_message(st, message_id, participant_id, now) ==
    LET i == first_index({k \in 1..Len(st.db_messages) :
                             own_message(st.db_messages[k], message_id, participant_id)})
    IN  IF i = 0 THEN Ret(st, FALSE)
        ELSE LET message == [st.db_messages[i] EXCEPT
                                !.is_deleted = TRUE, !.deleted_at = now]
             IN  Ret([st EXCEPT
                        !.db_messages[i] = message,
                        !.redis = invalidate_recent_messages_cache(
                                      remove_cached_message(@, message_id),
                                      message.session_id)],
                     TRUE)

\* The rows of a session that are not deleted, in commit order
session_rows(rows, session_id) ==
    SelectSeq(rows, LAMBDA m : m.session_id = session_id /\ ~m.is_deleted)

\* rows without its i-th element
drop_index(rows, i) == SubSeq(rows, 1, i - 1) \o SubSeq(rows, i + 1, Len(rows))

\* ORDER BY created_at ASC / DESC
RECURSIVE order_by_created_at(_, _)
order_by_created_at(rows, order) ==
    IF rows = <<>> THEN <<>>
    ELSE LET Before(a, b) == IF order = "desc" THEN a.created_at >= b.created_at
                                               ELSE a.created_at <= b.created_at
             i == first_index({j \in 1..Len(rows) :
                                  \A k \in 1..Len(rows) : Before(rows[j], rows[k])})
         IN  <<rows[i]>> \o order_by_created_at(drop_index(rows, i), order)

\* The offset skips whole pages up to and including the requested one
page_offset_one_too_far(page, page_size) == page * page_size

\* offset = (page - 1) * page_size
page_offset(page, page_size) == (page - 1) * page_size

\* OFFSET offset LIMIT limit
offset_limit(rows, offset, limit) ==
    [i \in 1..(Min(offset + limit, Len(rows)) - Min(offset, Len(rows))) |-> rows[offset + i]]

\* MessageService.get_session_messages
get_session_messages(st, session_id, page, page_size, order) ==
    LET query == session_rows(st.db_messages, session_id)
        total_count == Len(query)
        messages == offset_limit(order_by_created_at(query, order),
                                 page_offset(page, page_size), page_size)
    IN  [messages |-> [i \in 1..Len(messages) |-> MessageResponse(to_dict(messages[i]))],
         total_count |-> total_count, page |-> page, page_size |-> page_size,
         has_next |-> (page * page_size) < total_count]

\* MessageService.get_recent_messages: a non-empty cached list first, then storage
get_recent_messages(st, session_id, limit, now) ==
    LET cached == IF Expired(st.redis.recent_exp[session_id], now) THEN <<>>
                  ELSE st.redis.recent[session_id]
        messages == offset_limit(order_by_created_at(
                                     session_rows(st.db_messages, session_id), "desc"),
                                 0, limit)
        result == [i \in 1..Len(messages) |-> to_websocket_format(messages[i])]
    IN  IF cached # <<>>
        THEN Ret(st, SubSeq(cached, 1, Min(limit, Len(cached))))
        ELSE Ret([st EXCEPT !.redis = cache_recent_messages(@, session_id, result, now)],
                 result)

\* round(total_messages / total_participants, 2), in hundredths
messages_per_participant(total_messages, total_participants) ==
    IF total_participants > 0
    THEN (200 * total_messages + total_participants) \div (2 * total_participants)
    ELSE 0

\* json.dumps of stats.dict(): a datetime is not serialisable, None (NoTime) is
json_serialisable(stats) ==
    stats.first_message_at = NoTime /\ stats.last_message_at = NoTime

\* MessageService._cache_stats: RedisClient.set stores nothing when json.dumps raises
cache_stats(r, session_id, stats, now) ==
    IF connected(r) /\ json_serialisable(stats)
    THEN [r EXCEPT !.stats[session_id] = [present |-> TRUE, data |-> stats,
                                          exp |-> now + stats_cache_ttl]]
    ELSE r

\* MessageService.get_message_stats: the cached statistics first, then storage
get_message_stats(st, session_id, now) ==
    LET cached == st.redis.stats[session_id]
        query == session_rows(st.db_messages, session_id)
        times == {query[i].created_at : i \in 1..Len(query)}
        total_messages == Len(query)
        total_participants == Cardinality({query[i].participant_id : i \in 1..Len(query)})
        stats == [session_id |-> session_id,
                  total_messages |-> total_messages,
                  total_participants |-> total_participants,
                  messages_per_participant |->
                      messages_per_participant(total_messages, total_participants),
                  first_message_at |->
                      IF times = {} THEN NoTime
                      ELSE CHOOSE x \in times : \A y \in times : x <= y,
                  last_message_at |->
                      IF times = {} THEN NoTime
                      ELSE CHOOSE x \in times : \A y \in times : x >= y]
    IN  IF cached.present /\ ~Expired(cached.exp, now)
        THEN Ret(st, cached.data)
        ELSE Ret([st EXCEPT !.redis = cache_stats(@, session_id, stats, now)], stats)

\* The names app/api/messages.py binds at module level (its imports and router)
api_messages_names ==
    {"APIRouter", "Depends", "HTTPException", "Query", "Request", "Session", "List",
     "Optional", "get_db", "get_message_service", "MessageService", "MessageResponse",
     "MessageListResponse", "MessageStats", "MessageUpdate", "router"}

\* The confirmation flag is taken as given
confirmed_always(confirm) == TRUE

\* `if not confirm` of clear_session_messages
confirmed(confirm) == confirm

\* clear_session_messages: 400 without confirm; otherwise the argument of update()
\* is built first, and evaluating func.now() raises NameError when the module binds
\* no name func: the except branch rolls back and answers 500
clear_session_messages(st, session_id, confirm, now) ==
    IF ~confirmed(confirm) THEN Ret(st, 400)
    ELSE IF "func" \notin api_messages_names THEN Ret(st, 500)
    ELSE Ret([st EXCEPT !.db_messages =
                 [i \in 1..Len(@) |->
                     IF @[i].session_id = session_id /\ ~@[i].is_deleted
                     THEN [@[i] EXCEPT !.is_deleted = TRUE, !.deleted_at = now]
                     ELSE @[i]]],
             200)

\* PUT /messages/{message_id}: 404 when the service returns nothing
update_message_endpoint(st, message_id, participant_id, content, now) ==
    LET r == update_message(st, message_id, participant_id, content, now)
    IN  Ret(r.st, IF r.ret = NoRecord THEN 404 ELSE 200)

\* DELETE /messages/{message_id}: 404 when the service returns False
delete_message_endpoint(st, message_id, participant_id, now) ==
    LET r == delete_message(st, message_id, participant_id, now)
    IN  Ret(r.st, IF r.ret THEN 200 ELSE 404)

----
\* SessionService (app/services/session.py), ParticipantService.join_session and the
\* endpoints of app/api/sessions.py

\* The storage the session service works on
SCur == [db_sessions |-> db_sessions, db_participants |-> db_participants,
         id_seq |-> id_seq]

\* A raised exception: the state left behind and the exception's name
Raises(st, e) == [st |-> st, raised |-> e]
Raised(r) == "raised" \in DOMAIN r

\* An HTTP response: status code and body (NoRecord when there is none)
Response(status_code, body) == [status_code |-> status_code, body |-> body]

ascii_uppercase ==
    {"A", "B", "C", "D", "E", "F", "G", "H", "I", "J", "K", "L", "M",
     "N", "O", "P", "Q", "R", "S", "T", "U", "V", "W", "X", "Y", "Z"}
digits == {"0", "1", "2", "3", "4", "5", "6", "7", "8", "9"}
\* range(6) of generate_session_code
session_code_length == 6

\* Some of the codes secrets.choice can produce: sequences of session_code_length
\* symbols of ascii_uppercase + digits
CodeDraws ==
    {c \in [1..session_code_length -> {"A", "Z", "0", "7"}] :
        /\ c[1] = "A"
        /\ \A i \in 2..(session_code_length - 1) : c[i] = "Z"
        /\ c[session_code_length] \in {"A", "0", "7"}}

\* The users that hold valid tokens, and the callers of an endpoint: a user, a
\* caller without credentials, a caller with an invalid token
Users == {"u1", "u2"}
Callers == Users \cup {"no_credentials", "invalid_token"}

\* uuid.uuid4(): an id no row has had before
new_id(st) == st.id_seq + 1

\* Session(...) with the column defaults
Session(id, presenter_id, title, session_code) ==
    [id |-> id, presenter_id |-> presenter_id, title |-> title,
     session_code |-> session_code, is_active |-> FALSE,
     started_at |-> NoTime, ended_at |-> NoTime]

\* SessionService.get_session_by_id / get_session_by_code: .first() or None
get_session_by_id(st, session_id) ==
    IF \E x \in st.db_sessions : x.id = session_id
    THEN CHOOSE x \in st.db_sessions : x.id = session_id
    ELSE NoRecord

get_session_by_code(st, session_code) ==
    IF \E x \in st.db_sessions : x.session_code = session_code
    THEN CHOOSE x \in st.db_sessions : x.session_code = session_code
    ELSE NoRecord

\* The first drawn code is returned without the duplicate check
generate_session_code_unchecked(st, draws) == Head(draws)

\* SessionService.generate_session_code: draws are rejected while a session has the
\* code; the empty sequence when the draws given run out (the loop is still drawing)
RECURSIVE generate_session_code(_, _)
generate_session_code(st, draws) ==
    IF draws = <<>> THEN <<>>
    ELSE IF get_session_by_code(st, Head(draws)) = NoRecord THEN Head(draws)
    ELSE generate_session_code(st, Tail(draws))

\* SessionService.get_session_participant_count
get_session_participant_count(st, session_id) ==
    Cardinality({x \in st.db_participants : x.session_id = session_id})

\* The ownership check passes for every existing session
check_session_exists(st, session_id, user_id) ==
    get_session_by_id(st, session_id) # NoRecord

\* SessionService.check_session_ownership
check_session_ownership(st, session_id, user_id) ==
    LET session == get_session_by_id(st, session_id)
    IN  session # NoRecord /\ session.presenter_id = user_id

\* SessionService.create_session with the code generate_session_code returned
create_session(st, user_id, title, session_code) ==
    LET session == Session(new_id(st), user_id, title, session_code)
    IN  Ret([st EXCEPT !.db_sessions = @ \cup {session}, !.id_seq = new_id(st)],
            session)

\* setattr(session, field, value) for the fields set in the request
setattrs(session, update_data) ==
    [f \in DOMAIN session |->
        IF f \in DOMAIN update_data THEN update_data[f] ELSE session[f]]

\* The row of a session replaced
replace_session(st, session, changed) ==
    [st EXCEPT !.db_sessions = (@ \ {session}) \cup {changed}]

\* SessionService.update_session
update_session(st, session_id, update_data) ==
    LET session == get_session_by_id(st, session_id)
    IN  IF session = NoRecord THEN Ret(st, NoRecord)
        ELSE Ret(replace_session(st, session, setattrs(session, update_data)),
                 setattrs(session, update_data))

\* Activation sets the flag and leaves started_at alone
activate_session_unstamped(st, session_id, now) ==
    update_session(st, session_id, [is_active |-> TRUE])

\* SessionService.activate_session / deactivate_session
activate_session(st, session_id, now) ==
    LET session == get_session_by_id(st, session_id)
        changed == [session EXCEPT !.is_active = TRUE, !.started_at = now]
    IN  IF session = NoRecord THEN Ret(st, NoRecord)
        ELSE Ret(replace_session(st, session, changed), changed)

deactivate_session(st, session_id, now) ==
    LET session == get_session_by_id(st, session_id)
        changed == [session EXCEPT !.is_active = FALSE, !.ended_at = now]
    IN  IF session = NoRecord THEN Ret(st, NoRecord)
        ELSE Ret(replace_session(st, session, changed), changed)

\* Session.participants = relationship("Participant", ...) has no delete cascade:
\* on db.delete(session) the unit of work sets session_id of the session's
\* participants to NULL, which participants.session_id (nullable=False) refuses
participants_nullable == FALSE

\* SessionService.delete_session: db.delete and db.commit.  The flush fails with
\* IntegrityError when the session has participants; nothing is committed.
delete_session(st, session_id) ==
    LET session == get_session_by_id(st, session_id)
        children == {x \in st.db_participants : x.session_id = session_id}
    IN  IF session = NoRecord THEN Ret(st, FALSE)
        ELSE IF children # {} /\ ~participants_nullable
             THEN Raises(st, "IntegrityError")
        ELSE Ret([st EXCEPT
                    !.db_sessions = @ \ {session},
                    !.db_participants =
                        (@ \ children) \cup {[x EXCEPT !.session_id = None] : x \in children}],
                 TRUE)

\* ParticipantService.join_session up to the insert: the session is looked up by
\* code and the nickname among its participants; 404 for an unknown code, 409 for a
\* nickname taken in the session, else 200 with the session found
join_session_checks(st, session_code, nickname) ==
    LET session == get_session_by_code(st, session_code)
    IN  IF session = NoRecord THEN Response(404, NoRecord)
        ELSE IF \E x \in st.db_participants :
                    x.session_id = session.id /\ x.nickname = nickname
             THEN Response(409, NoRecord)
        ELSE Response(200, session)

\* ParticipantService.join_session from the insert on: Participant(...), db.add,
\* db.commit.  Table "participants" has no constraint on (session_id, nickname).
join_session_insert(st, session_id, nickname) ==
    LET participant == [id |-> new_id(st), session_id |-> session_id,
                        nickname |-> nickname]
    IN  Ret([st EXCEPT !.db_participants = @ \cup {participant},
                       !.id_seq = new_id(st)],
            Response(200, participant))

\* ParticipantService.join_session run without interruption
join_session_durably(st, session_code, nickname) ==
    LET checked == join_session_checks(st, session_code, nickname)
    IN  IF checked.status_code # 200 THEN Ret(st, checked)
        ELSE join_session_insert(st, checked.body.id, nickname)

\* The session as the endpoints return it: the row and its participant count
with_participant_count(st, session) ==
    [f \in DOMAIN session \cup {"participant_count"} |->
        IF f = "participant_count" THEN get_session_participant_count(st, session.id)
        ELSE session[f]]

\* A caller that is not a user is answered as if nothing was found
get_current_active_user_not_found(caller) ==
    IF caller \in {"no_credentials", "invalid_token"} THEN Response(404, NoRecord)
    ELSE Response(200, [id |-> caller])

\* Depends(get_current_active_user): HTTPBearer refuses a request without
\* credentials with 403 and an invalid token is refused with 401, before the
\* endpoint's body runs; otherwise the body runs with the token's user
get_current_active_user(caller) ==
    IF caller = "no_credentials" THEN Response(403, NoRecord)
    ELSE IF caller = "invalid_token" THEN Response(401, NoRecord)
    ELSE Response(200, [id |-> caller])

\* POST /sessions/
create_session_endpoint(st, caller, title, session_code) ==
    IF get_current_active_user(caller).status_code # 200
    THEN Ret(st, get_current_active_user(caller))
    ELSE LET r == create_session(st, caller, title, session_code)
         IN  Ret(r.st, Response(201, with_participant_count(r.st, r.ret)))

\* GET /sessions/{session_id}
get_session_endpoint(st, caller, session_id) ==
    IF get_current_active_user(caller).status_code # 200
    THEN Ret(st, get_current_active_user(caller))
    ELSE IF get_session_by_id(st, session_id) = NoRecord
    THEN Ret(st, Response(404, NoRecord))
    ELSE IF ~check_session_ownership(st, session_id, caller)
    THEN Ret(st, Response(403, NoRecord))
    ELSE Ret(st, Response(200, with_participant_count(
                                   st, get_session_by_id(st, session_id))))

\* GET /sessions/code/{session_code}: public
get_session_by_code_endpoint(st, session_code) ==
    LET session == get_session_by_code(st, session_code)
    IN  IF session = NoRecord THEN Ret(st, Response(404, NoRecord))
        ELSE Ret(st, Response(200, with_participant_count(st, session)))

\* PUT /sessions/{session_id}
update_session_endpoint(st, caller, session_id, update_data) ==
    IF get_current_active_user(caller).status_code # 200
    THEN Ret(st, get_current_active_user(caller))
    ELSE IF ~check_session_ownership(st, session_id, caller)
    THEN Ret(st, Response(404, NoRecord))
    ELSE LET r == update_session(st, session_id, update_data)
         IN  Ret(r.st, Response(200, with_participant_count(r.st, r.ret)))

\* DELETE /sessions/{session_id}: 204, or 500 when the service returns False or raises
delete_session_endpoint(st, caller, session_id) ==
    IF get_current_active_user(caller).status_code # 200
    THEN Ret(st, get_current_active_user(caller))
    ELSE IF ~check_session_ownership(st, session_id, caller)
    THEN Ret(st, Response(404, NoRecord))
    ELSE LET r == delete_session(st, session_id)
         IN  IF Raised(r) THEN Ret(r.st, Response(500, NoRecord))
             ELSE IF ~r.ret THEN Ret(r.st, Response(500, NoRecord))
             ELSE Ret(r.st, Response(204, NoRecord))

\* POST /sessions/{session_id}/activate and /deactivate
activate_session_endpoint(st, caller, session_id, now) ==
    IF get_current_active_user(caller).status_code # 200
    THEN Ret(st, get_current_active_user(caller))
    ELSE IF ~check_session_ownership(st, session_id, caller)
    THEN Ret(st, Response(404, NoRecord))
    ELSE LET r == activate_session(st, session_id, now)
         IN  Ret(r.st, Response(200, with_participant_count(r.st, r.ret)))

deactivate_session_endpoint(st, caller, session_id, now) ==
    IF get_current_active_user(caller).status_code # 200
    THEN Ret(st, get_current_active_user(caller))
    ELSE IF ~check_session_ownership(st, session_id, caller)
    THEN Ret(st, Response(404, NoRecord))
    ELSE LET r == deactivate_session(st, session_id, now)
         IN  Ret(r.st, Response(200, with_participant_count(r.st, r.ret)))

----
\* Credentials and tokens: app/core/security.py, app/core/dependencies.py and the
\* endpoints of app/api/auth.py

\* The storage and the flow-state store the authentication endpoints work on
ACur == [db_users |-> db_users, oauth_sessions |-> oauth_sessions,
         responses |-> responses]

\* Python values that end up in a token's claims: a uuid.UUID object (the id of a
\* row) and a str (what a decoded token carries)
UUID(v) == [py |-> "UUID", v |-> v]
Str(v) == [py |-> "str", v |-> v]

secret_key == "your-secret-key-here"
\* seconds
access_token_expire == 30 * 60
refresh_token_expire == 7 * 24 * 60 * 60
password_reset_expire == 60 * 60
email_verification_expire == 24 * 60 * 60

TokenTypes == {"access", "refresh", "password_reset", "email_verification"}

\* What module jwt of the build does with a claim that is a uuid.UUID: "json" is
\* json.dumps, which raises TypeError; "str" writes the UUID as its text. The
\* module is not part of the repository, and tests/test_sessions.py mints an
\* access token for a row's id
JsonEncoders == {"json", "str"}

\* jwt.encode
jwt_encode(claims, exp, key, json_encoder) ==
    IF claims.sub.py = "UUID" /\ json_encoder = "json" THEN [raised |-> "TypeError"]
    ELSE [claims |-> [claims EXCEPT !.sub = Str(@.v)], exp |-> exp, key |-> key]

\* JWTToken.create_access_token
create_access_token(data, now, json_encoder) ==
    jwt_encode([sub |-> data.sub, email |-> data.email, type |-> "access"],
               now + access_token_expire, secret_key, json_encoder)

\* JWTToken.create_refresh_token
create_refresh_token(data, now, json_encoder) ==
    jwt_encode([sub |-> data.sub, email |-> None, type |-> "refresh"],
               now + refresh_token_expire, secret_key, json_encoder)

\* generate_password_reset_token
generate_password_reset_token(email, now) ==
    jwt_encode([sub |-> Str(email), email |-> None, type |-> "password_reset"],
               now + password_reset_expire, secret_key, "json")

\* create_email_verification_token
create_email_verification_token(email, now) ==
    jwt_encode([sub |-> Str(email), email |-> None, type |-> "email_verification"],
               now + email_verification_expire, secret_key, "json")

\* jwt.decode: the signature is checked first, then the expiry
jwt_decode(token, now) ==
    IF token.key # secret_key THEN [raised |-> "InvalidSignatureError"]
    ELSE IF token.exp <= now THEN [raised |-> "ExpiredSignatureError"]
    ELSE token.claims

\* JWTToken.decode_token: 401 for an expired or invalid token, else the payload
decode_token(token, now) ==
    LET payload == jwt_decode(token, now)
    IN  IF Raised(payload) THEN Response(401, NoRecord) ELSE Response(200, payload)

verify_token_type_any(payload, expected_type) == TRUE

\* JWTToken.verify_token_type
verify_token_type(payload, expected_type) == payload.type = expected_type

\* PasswordHandler.hash_password, PasswordHandler.verify_password
hash_password(password) == [bcrypt |-> password]
verify_password(plain_password, hashed_password) ==
    hashed_password = hash_password(plain_password)

\* A row of table "users" (app/models/user.py)
User(id, email, hashed_password, google_id, created_via_oauth, is_verified, now) ==
    [id |-> id, email |-> email, hashed_password |-> hashed_password,
     google_id |-> google_id, created_via_oauth |-> created_via_oauth,
     is_active |-> TRUE, is_verified |-> is_verified, last_login_at |-> now,
     updated_at |-> NoTime]

\* db.query(User).filter(User.id == user_id).first(): the parameter is bound as
\* the text of a uuid
get_user_by_id(st, user_id) ==
    IF \E u \in st.db_users : u.id.v = user_id.v
    THEN CHOOSE u \in st.db_users : u.id.v = user_id.v
    ELSE NoRecord

\* db.query(User).filter(User.email == email).first()
get_user_by_email(st, email) ==
    IF \E u \in st.db_users : u.email = email
    THEN CHOOSE u \in st.db_users : u.email = email
    ELSE NoRecord

\* get_current_user_from_token: the bearer token must decode, be of type access
\* and name an existing, active user
get_current_user_from_token(st, token, now) ==
    LET decoded == decode_token(token, now)
        payload == decoded.body
        user == get_user_by_id(st, payload.sub)
    IN  IF decoded.status_code # 200 THEN decoded
        ELSE IF ~verify_token_type(payload, "access") THEN Response(401, NoRecord)
        ELSE IF payload.sub = NoRecord THEN Response(401, NoRecord)
        ELSE IF user = NoRecord THEN Response(401, NoRecord)
        ELSE IF ~user.is_active THEN Response(401, NoRecord)
        ELSE Response(200, user)

\* verify_refresh_token: the bearer token must decode and be of type refresh
verify_refresh_token(token, now) ==
    LET decoded == decode_token(token, now)
    IN  IF decoded.status_code # 200 THEN decoded
        ELSE IF ~verify_token_type(decoded.body, "refresh") THEN Response(401, NoRecord)
        ELSE decoded

\* verify_password_reset_token: the subject of a password_reset token, else None
\* (NoRecord); decoded_token["sub"] raises KeyError when the claim is missing
verify_password_reset_token(token, now) ==
    LET decoded_token == jwt_decode(token, now)
    IN  IF Raised(decoded_token) THEN NoRecord
        ELSE IF decoded_token.type # "password_reset" THEN NoRecord
        ELSE IF decoded_token.sub = NoRecord THEN [raised |-> "KeyError"]
        ELSE decoded_token.sub

\* verify_email_verification_token
verify_email_verification_token(token, now) ==
    LET decoded_token == jwt_decode(token, now)
    IN  IF Raised(decoded_token) THEN NoRecord
        ELSE IF decoded_token.type # "email_verification" THEN NoRecord
        ELSE IF decoded_token.sub = NoRecord THEN [raised |-> "KeyError"]
        ELSE decoded_token.sub

\* TokenResponse of a freshly minted pair; when minting raises the request ends
\* with 500
token_pair(user, now, status_code, json_encoder) ==
    LET access_token == create_access_token([sub |-> user.id, email |-> user.email],
                                            now, json_encoder)
        refresh_token == create_refresh_token([sub |-> user.id], now, json_encoder)
    IN  IF Raised(access_token) \/ Raised(refresh_token)
        THEN Response(500, NoRecord)
        ELSE Response(status_code, [access_token |-> access_token,
                                    refresh_token |-> refresh_token,
                                    expires_in |-> access_token_expire])

\* POST /auth/register: the row is committed before the tokens are made
register(st, id, email, password, now, json_encoder) ==
    IF get_user_by_email(st, email) # NoRecord THEN Ret(st, Response(400, NoRecord))
    ELSE LET db_user == User(UUID(id), email, hash_password(password), None, FALSE,
                             FALSE, NoTime)
         IN  Ret([st EXCEPT !.db_users = @ \cup {db_user}], token_pair(db_user, now, 201, json_encoder))

\* settings.require_email_verification
require_email_verification == TRUE

\* POST /auth/login: 401 for an unknown email or a password that does not verify,
\* for an inactive account and for an unverified one; otherwise last_login_at is
\* committed and the tokens are made
login(st, email, password, now, json_encoder) ==
    LET user == get_user_by_email(st, email)
        logged_in == [user EXCEPT !.last_login_at = now]
    IN  IF user = NoRecord \/ ~verify_password(password, user.hashed_password)
        THEN Ret(st, Response(401, NoRecord))
        ELSE IF ~user.is_active THEN Ret(st, Response(401, NoRecord))
        ELSE IF require_email_verification /\ ~user.is_verified
        THEN Ret(st, Response(401, NoRecord))
        ELSE Ret([st EXCEPT !.db_users = (@ \ {user}) \cup {logged_in}],
                 token_pair(logged_in, now, 200, json_encoder))

\* POST /auth/refresh
refresh_token_endpoint(st, token, now, json_encoder) ==
    LET verified == verify_refresh_token(token, now)
        user == get_user_by_id(st, verified.body.sub)
    IN  IF verified.status_code # 200 THEN Ret(st, verified)
        ELSE IF verified.body.sub = NoRecord THEN Ret(st, Response(401, NoRecord))
        ELSE IF user = NoRecord THEN Ret(st, Response(401, NoRecord))
        ELSE IF ~user.is_active THEN Ret(st, Response(401, NoRecord))
        ELSE Ret(st, token_pair(user, now, 200, json_encoder))

\* GET /auth/me
get_current_user_profile(st, token, now) ==
    LET current_user == get_current_user_from_token(st, token, now)
    IN  IF current_user.status_code # 200 THEN Ret(st, current_user)
        ELSE Ret(st, Response(200, [id |-> current_user.body.id,
                                    email |-> current_user.body.email]))

forgot_password_not_found(st, email, now) ==
    IF get_user_by_email(st, email) = NoRecord THEN Ret(st, Response(404, NoRecord))
    ELSE Ret(st, Response(200, [message |-> "sent"]))

\* POST /auth/forgot-password: the reset token made for an existing account is
\* dropped, the answer is the same message either way
forgot_password(st, email, now) ==
    LET user == get_user_by_email(st, email)
        reset_token == IF user # NoRecord
                       THEN generate_password_reset_token(user.email, now)
                       ELSE NoRecord
    IN  Ret(st, Response(200, [message |-> "sent"]))

\* POST /auth/reset-password
reset_password(st, token, new_password, now) ==
    LET email == verify_password_reset_token(token, now)
        user == get_user_by_email(st, email.v)
    IN  IF Raised(email) THEN Ret(st, Response(500, NoRecord))
        ELSE IF email = NoRecord THEN Ret(st, Response(400, NoRecord))
        ELSE IF user = NoRecord THEN Ret(st, Response(404, NoRecord))
        ELSE Ret([st EXCEPT !.db_users = (@ \ {user}) \cup
                     {[user EXCEPT !.hashed_password = hash_password(new_password),
                                   !.updated_at = now]}],
                 Response(200, [message |-> "reset"]))


----
\* The identity-provider login: app/core/oauth.py and app/api/oauth.py

\* settings.google_client_id and settings.google_client_secret of a deployment
\* where the provider is configured
google_client_id == "client-id.apps.googleusercontent.com"
google_client_secret == "client-secret"

\* The password hashed for an account created by the provider login
oauth_user_no_password == "oauth_user_no_password"

\* OAuthSessionManager.create_session
oauth_create_session(st, state, code_verifier, redirect_url) ==
    [st EXCEPT !.oauth_sessions =
        With(@, state, [code_verifier |-> code_verifier, redirect_url |-> redirect_url])]

\* OAuthSessionManager.get_session
oauth_get_session(st, state) ==
    IF state \in DOMAIN st.oauth_sessions THEN st.oauth_sessions[state] ELSE NoRecord

\* OAuthSessionManager.remove_session
oauth_remove_session(st, state) ==
    [st EXCEPT !.oauth_sessions = Without(@, state)]

\* GET /auth/login/google: state and code_verifier are fresh random values
google_login_start(st, state, code_verifier, redirect_url) ==
    IF google_client_id = None \/ google_client_secret = None
    THEN Ret(st, Response(503, NoRecord))
    ELSE IF google_client_id \in {"test-", "your-google-client-id.apps.googleusercontent.com"}
    THEN Ret(st, Response(200, [state |-> "mock_state"]))
    ELSE Ret(oauth_create_session(st, state, code_verifier, redirect_url),
             Response(200, [state |-> state]))

\* A finished callback: the answer is appended to the responses returned
callback_returns(st, state, response) ==
    Ret([st EXCEPT !.responses = Append(@, [state |-> state,
                                            status_code |-> response.status_code,
                                            tokens |-> response.body # NoRecord])],
        response)

\* A callback suspended at an await of google_oauth_callback, with its locals
CallbackTask(at, state, code_verifier, redirect_url) ==
    [h |-> "google_oauth_callback", at |-> at, state |-> state,
     code_verifier |-> code_verifier, redirect_url |-> redirect_url]

\* google_oauth_callback up to its first await. Query(...) makes code and state
\* required: a request without code is answered 422 and the body does not run
google_oauth_callback(st, request) ==
    LET session_data == oauth_get_session(st, request.state)
    IN  IF request.code = None
        THEN callback_returns(st, request.state, Response(422, NoRecord))
        ELSE IF request.error # None
        THEN callback_returns(oauth_remove_session(st, request.state), request.state,
                              Response(400, NoRecord))
        ELSE IF session_data = NoRecord
        THEN callback_returns(st, request.state, Response(400, NoRecord))
        ELSE Ret(st, CallbackTask("exchange_code_for_token", request.state,
                                  session_data.code_verifier, session_data.redirect_url))

\* except Exception of google_oauth_callback: the flow state is removed and the
\* request answered 500, whatever was raised
callback_except(st, t) ==
    callback_returns(oauth_remove_session(st, t.state), t.state, Response(500, NoRecord))

\* google_oauth_callback resumed from exchange_code_for_token, which returned
\* token data or raised HTTPException
callback_exchanged(st, t, outcome) ==
    IF outcome # "ok" THEN callback_except(st, t)
    ELSE Ret(st, [t EXCEPT !.at = "get_user_info"])

\* get_or_create_oauth_user: the account of the provider's email is linked, or a
\* new account is created with the fixed password hashed
get_or_create_oauth_user(st, google_user_info, id, now) ==
    LET email == google_user_info.email
        existing_user == get_user_by_email(st, email)
        linked == [existing_user EXCEPT !.google_id = google_user_info.id,
                                        !.is_verified = TRUE,
                                        !.last_login_at = now]
        new_user == User(UUID(id), email, hash_password(oauth_user_no_password),
                         google_user_info.id, TRUE, TRUE, now)
    IN  IF email = None THEN Raises(st, "HTTPException")
        ELSE IF existing_user # NoRecord
        THEN IF \E u \in st.db_users : u # existing_user /\ u.google_id = google_user_info.id
             THEN Raises(st, "IntegrityError")
             ELSE Ret([st EXCEPT !.db_users = (@ \ {existing_user}) \cup {linked}], linked)
        ELSE IF \E u \in st.db_users : u.google_id = google_user_info.id
        THEN Raises(st, "IntegrityError")
        ELSE Ret([st EXCEPT !.db_users = @ \cup {new_user}], new_user)

\* google_oauth_callback resumed from get_user_info: the user is resolved, the
\* tokens are minted, the flow state is removed and the tokens are returned, by
\* redirect when the flow has a redirect URL
callback_user_info(st, t, outcome, google_user_info, id, now, json_encoder) ==
    LET resolved == get_or_create_oauth_user(st, google_user_info, id, now)
        minted == token_pair(resolved.ret, now,
                             IF t.redirect_url # None THEN 307 ELSE 200, json_encoder)
    IN  IF outcome # "ok" THEN callback_except(st, t)
        ELSE IF Raised(resolved) THEN callback_except(resolved.st, t)
        ELSE IF minted.status_code = 500 THEN callback_except(resolved.st, t)
        ELSE callback_returns(oauth_remove_session(resolved.st, t.state), t.state, minted)

\* POST /auth/unlink/google
unlink_google_account(st, token, now) ==
    LET current_user == get_current_user_from_token(st, token, now)
        user == current_user.body
    IN  IF current_user.status_code # 200 THEN Ret(st, current_user)
        ELSE IF user.google_id = None THEN Ret(st, Response(400, NoRecord))
        ELSE IF user.created_via_oauth /\ user.hashed_password = NoRecord
        THEN Ret(st, Response(400, NoRecord))
        ELSE Ret([st EXCEPT !.db_users = (@ \ {user}) \cup
                     {[user EXCEPT !.google_id = None, !.updated_at = now]}],
                 Response(200, [message |-> "unlinked"]))


----
\* The migration tool (migrate.py)

\* a text is falsy when it is None or empty
Truthy(s) == s # None /\ s # ""

\* str.lower on the answers the operator types
lower(s) == IF s = "Y" THEN "y" ELSE s

\* run_alembic_command: the command line handed to subprocess.run, and True
\* unless the engine ends with a non-zero status (CalledProcessError)
run_alembic_command(command, description, outcome) ==
    [cmd |-> IF command = "revision" /\ Truthy(description)
             THEN <<"alembic", "revision", "--autogenerate", "-m", description>>
             ELSE <<"alembic", command>>,
     ret |-> outcome = "ok"]

\* the process ends: the engine command lines it ran and its exit status
sys_exit(calls, status) == [calls |-> calls, exit |-> status]

\* main; argv is sys.argv with the script's name first, confirm is the line the
\* operator types at the prompt of reset, engine[i] is how the i-th engine run ends
main(argv, confirm, engine) ==
    IF Len(argv) < 2 THEN sys_exit(<<>>, 1)
    ELSE
    LET command == argv[2]
    IN  CASE command = "upgrade" ->
               LET r == run_alembic_command("upgrade", "head", engine[1])
               IN  sys_exit(<<r.cmd>>, IF r.ret THEN 0 ELSE 1)
          [] command = "downgrade" ->
               LET revision == IF Len(argv) > 2 THEN argv[3] ELSE "-1"
                   r == run_alembic_command("downgrade", revision, engine[1])
               IN  sys_exit(<<r.cmd>>, IF r.ret THEN 0 ELSE 1)
          [] command \in {"current", "history"} ->
               LET r == run_alembic_command(command, None, engine[1])
               IN  sys_exit(<<r.cmd>>, 0)
          [] command = "revision" ->
               IF Len(argv) < 3 THEN sys_exit(<<>>, 1)
               ELSE LET r == run_alembic_command("revision", argv[3], engine[1])
                    IN  sys_exit(<<r.cmd>>, IF r.ret THEN 0 ELSE 1)
          [] command = "reset" ->
               IF lower(confirm) = "y"
               THEN LET down == run_alembic_command("downgrade", "base", engine[1])
                    IN  IF down.ret
                        THEN LET up == run_alembic_command("upgrade", "head", engine[2])
                             IN  sys_exit(<<down.cmd, up.cmd>>, 0)
                        ELSE sys_exit(<<down.cmd>>, 0)
               ELSE sys_exit(<<>>, 0)
          [] OTHER -> sys_exit(<<>>, 1)


----
\* Join links (services/qr_code.py)

\* A text is a sequence of characters. The characters of the model: an upper-case
\* letter, a digit, a lower-case letter, one that is neither letter nor digit, and
\* the text base_url + "/join/" kept as one element (it holds ':' and '/', so no
\* part of a code can begin or end it, and it does not overlap itself)
UpperChars == {"A"}
DigitChars == {"1"}
LowerChars == {"a"}

\* settings has no frontend_url: QRCodeService.base_url is the default
base_url == "http://localhost:3000"

\* f"{self.base_url}/join/"
join_prefix == <<base_url \o "/join/">>

\* the length of a session code
CodeLen == 6

\* str.startswith
startswith(s, prefix) ==
    Len(s) >= Len(prefix) /\ SubSeq(s, 1, Len(prefix)) = prefix

\* str.replace(old, ""): every occurrence of old is removed, left to right
RECURSIVE replace_with_empty(_, _)
replace_with_empty(s, old) ==
    IF s = <<>> THEN <<>>
    ELSE IF startswith(s, old)
         THEN replace_with_empty(SubSeq(s, Len(old) + 1, Len(s)), old)
         ELSE <<Head(s)>> \o replace_with_empty(Tail(s), old)

\* str.isalnum: not empty, and every character is a letter or a digit
isalnum(s) ==
    s # <<>> /\ \A i \in 1..Len(s) : s[i] \in UpperChars \cup LowerChars \cup DigitChars

\* str.isupper: at least one cased character, and no lower-case one
isupper(s) ==
    /\ \E i \in 1..Len(s) : s[i] \in UpperChars
    /\ \A i \in 1..Len(s) : s[i] \notin LowerChars

\* a session code that is returned
Code(session_code) == [present |-> TRUE, code |-> session_code]

\* QRCodeService.generate_short_url
generate_short_url(session_code) == join_prefix \o session_code

\* QRCodeService.verify_qr_code_data
verify_qr_code_data(qr_data) ==
    IF startswith(qr_data, join_prefix)
    THEN LET session_code == replace_with_empty(qr_data, join_prefix)
         IN  IF Len(session_code) = CodeLen /\ isalnum(session_code) /\ isupper(session_code)
             THEN Code(session_code)
             ELSE NoRecord
    ELSE NoRecord


----
\* SessionService.generate_session_code and create_session, statement by statement,
\* as a request runs them in a worker thread

\* One pass of the loop up to the query: the code drawn and the row the query finds
code_drawn(st, code) == [code |-> code, existing |-> get_session_by_code(st, code)]

\* The drawn code is returned whatever the query found
code_unused_whatever(existing) == TRUE

\* `if not existing`
code_unused(existing) == existing = NoRecord

\* db.add(session); db.commit(): session_code is a unique column, and the endpoint
\* answers 500 for any exception
create_session_commit(st, user_id, title, session_code) ==
    IF get_session_by_code(st, session_code) # NoRecord
    THEN Ret(st, Response(500, NoRecord))
    ELSE LET r == create_session(st, user_id, title, session_code)
         IN  Ret(r.st, Response(201, with_participant_count(r.st, r.ret)))


----
\* The gateway status probe (app/main.py)

\* WebSocketManager.get_total_connections
get_total_connections(st) == Cardinality(DOMAIN st.active_connections)

\* GET /api/websocket/status
websocket_status(st) ==
    [status |-> "active",
     total_connections |-> get_total_connections(st),
     active_sessions |-> Cardinality(DOMAIN st.session_rooms)]


----
\* Running handlers

handler_step(st, now, t) ==
    CASE t.h = "connect" -> connect(st, now, t)
      [] t.h = "disconnect" -> disconnect(st, now, t)
      [] t.h = "join_session" -> join_session(st, now, t)
      [] t.h = "leave_session" -> leave_session(st, now, t)
      [] t.h = "heartbeat" -> heartbeat(st, now, t)
      [] t.h = "send_message" -> send_message(st, now, t)
      [] t.h = "get_participant_list" -> get_participant_list(st, now, t)

\* A handler run from position t.pc to its end, no other handler in between
RECURSIVE run_handler(_, _, _)
run_handler(st, now, t) ==
    LET r == handler_step(st, now, t)
    IN  IF r.t.pc = "done" THEN r
        ELSE LET rest == run_handler(r.st, now, r.t)
             IN  Result(rest.st, r.evs \o rest.evs, rest.t)

\* The transport hands a client's event to its handler: before the connection is
\* established only connect, afterwards anything but connect
Accepts(h, sid) ==
    IF h = "connect" THEN transport[sid] = "new" ELSE transport[sid] = "connected"

\* The event is handled to completion
Handle(h, sid, data) ==
    /\ Accepts(h, sid)
    /\ \E r \in {run_handler(Cur, clock, Task(h, sid, data))} : Becomes(r.st)
    /\ UNCHANGED <<clock, tasks>>

\* The handler starts and runs to its first await or to its end
Start(h, sid, data) ==
    /\ Accepts(h, sid)
    /\ \E r \in {handler_step(Cur, clock, Task(h, sid, data))} :
           /\ Becomes(r.st)
           /\ tasks' = IF r.t.pc = "done" THEN tasks ELSE tasks (+) SetToBag({r.t})
    /\ UNCHANGED clock

\* A suspended handler runs to its next await or to its end
Resume(t) ==
    /\ t \in BagToSet(tasks)
    /\ \E r \in {handler_step(Cur, clock, t)} :
           /\ Becomes(r.st)
           /\ tasks' = (tasks (-) SetToBag({t}))
                        (+) (IF r.t.pc = "done" THEN EmptyBag ELSE SetToBag({r.t}))
    /\ UNCHANGED clock

Tick ==
    /\ clock < MaxClock
    /\ clock' = clock + TickStep
    /\ redis' = purge(redis, clock')
    /\ UNCHANGED <<transport, active_connections, session_rooms, sio_rooms, tasks,
                   db_messages, msg_seq, delivered, db_sessions, db_participants, id_seq,
          db_users, oauth_sessions, responses, migrate, qr>>

----
\* The presence monitor called directly (it is a process-wide singleton)

monitor_add(s, p, n) ==
    /\ redis' = add_participant(redis, s, p, n, clock)
    /\ UNCHANGED <<clock, transport, active_connections, session_rooms, sio_rooms, tasks,
                   db_messages, msg_seq, delivered, db_sessions, db_participants, id_seq,
          db_users, oauth_sessions, responses, migrate, qr>>

monitor_remove(s, p) ==
    /\ redis' = remove_participant(redis, s, p)
    /\ UNCHANGED <<clock, transport, active_connections, session_rooms, sio_rooms, tasks,
                   db_messages, msg_seq, delivered, db_sessions, db_participants, id_seq,
          db_users, oauth_sessions, responses, migrate, qr>>

monitor_heartbeat(p) ==
    /\ redis' = update_heartbeat(redis, p, clock)
    /\ UNCHANGED <<clock, transport, active_connections, session_rooms, sio_rooms, tasks,
                   db_messages, msg_seq, delivered, db_sessions, db_participants, id_seq,
          db_users, oauth_sessions, responses, migrate, qr>>

----
\* The server after start-up: nothing connected, nothing stored, no flow state;
\* client is RedisClient.client, None when connect() failed
ServerStart(client) ==
    /\ clock = 0
    /\ transport = [sid \in Sids |-> "new"]
    /\ active_connections = EmptyMap
    /\ session_rooms = EmptyMap
    /\ sio_rooms = [s \in SessionIds |-> {}]
    /\ tasks = EmptyBag
    /\ redis = [client |-> client,
                members |-> [s \in SessionIds |-> {}],
                members_exp |-> [s \in SessionIds |-> NoExpiry],
                status |-> [p \in ParticipantIds |-> NoRecord],
                recent |-> [s \in SessionIds |-> <<>>],
                recent_exp |-> [s \in SessionIds |-> NoExpiry],
                message |-> EmptyMap,
                stats |-> [s \in SessionIds |-> NoRecord]]
    /\ db_messages = <<>>
    /\ msg_seq = 0
    /\ delivered = <<>>
    /\ db_sessions = {}
    /\ db_participants = {}
    /\ id_seq = 0
    /\ db_users = {}
    /\ oauth_sessions = EmptyMap
    /\ responses = <<>>

\* The server with its cache reachable
ServerInit == ServerStart("connected")

\* The server runs; the command-line tool and the scanner are not in use
Init ==
    /\ ServerInit
    /\ migrate = NoRecord
    /\ qr = NoRecord

\* send_message inputs: every text with storage working, and the texts that reach
\* storage with storage failing
SendInputs ==
    [message : Texts, db_ok : {TRUE}]
    \cup [message : {t \in Texts : validate_content(strip(t))}, db_ok : {FALSE}]

\* Events handled one after the other: each handler finishes before the next starts
SeqNext ==
    \E sid \in Sids :
        \/ Handle("connect", sid, None)
        \/ Handle("disconnect", sid, None)
        \/ \E d \in JoinPayloads(sid) : Handle("join_session", sid, d)
        \/ Handle("leave_session", sid, None)
        \/ Handle("heartbeat", sid, None)
        \/ \E d \in SendInputs : msg_seq < MaxSends /\ Handle("send_message", sid, d)
        \/ Handle("get_participant_list", sid, None)

Spec == Init /\ [][SeqNext]_vars

\* send_message handlers interleaved at their awaits with each other and with the
\* join_session handlers
SendAsyncNext ==
    \/ \E sid \in Sids :
        /\ BagCardinality(tasks) < MaxTasks
        /\ \/ Start("connect", sid, None)
           \/ \E s \in SessionIds :
                Start("join_session", sid,
                      [session_id |-> s, nickname |-> "ann",
                       participant_id |-> IF sid = "c1" THEN "p1" ELSE "p2"])
           \/ \E d \in SendInputs : msg_seq < MaxSends /\ Start("send_message", sid, d)
    \/ \E t \in BagToSet(tasks) : Resume(t)

SpecSendAsync == Init /\ [][SendAsyncNext]_vars

PresenceNext ==
    \/ \E s \in SessionIds, p \in ParticipantIds, n \in Nicknames : monitor_add(s, p, n)
    \/ \E s \in SessionIds, p \in ParticipantIds : monitor_remove(s, p)
    \/ \E p \in ParticipantIds : monitor_heartbeat(p)
    \/ Tick

SpecPresence == Init /\ [][PresenceNext]_vars

----
\* The message service called through app/api/messages.py.  Storage stamps every new
\* row with a later time than the rows before it.

MessageIds == 1..MaxPaged
Pages == 1..MaxPaged
PageSizes == 1..2
Limits == 1..2

Keeps == UNCHANGED <<transport, active_connections, session_rooms, sio_rooms, tasks>>

RECURSIVE edits(_)
edits(rows) == IF rows = <<>> THEN 0 ELSE Head(rows).edit_count + edits(Tail(rows))

CreateMessage(s, p, max) ==
    /\ msg_seq < max
    /\ clock' = clock + 1
    /\ Becomes(create_message(Cur, Message(msg_seq + 1, s, p, "ann", <<"a">>, clock'),
                              clock'))
    /\ Keeps

UpdateMessage(id, p) ==
    /\ edits(db_messages) < MaxEdits
    /\ Becomes(update_message_endpoint(Cur, id, p, <<"b">>, clock).st)
    /\ UNCHANGED clock /\ Keeps

DeleteMessage(id, p) ==
    /\ Becomes(delete_message_endpoint(Cur, id, p, clock).st)
    /\ UNCHANGED clock /\ Keeps

GetMessage(id) ==
    /\ Becomes(get_message(Cur, id, clock).st)
    /\ UNCHANGED clock /\ Keeps

ListMessages(s, page, page_size, order) ==
    /\ get_session_messages(Cur, s, page, page_size, order).page = page
    /\ UNCHANGED vars

RecentMessages(s, limit) ==
    /\ Becomes(get_recent_messages(Cur, s, limit, clock).st)
    /\ UNCHANGED clock /\ Keeps

GetMessageStats(s) ==
    /\ Becomes(get_message_stats(Cur, s, clock).st)
    /\ UNCHANGED clock /\ Keeps

ClearMessages(s, confirm) ==
    /\ Becomes(clear_session_messages(Cur, s, confirm, clock).st)
    /\ UNCHANGED clock /\ Keeps

\* One session's messages written by two participants, read, edited and deleted
MessagesNext ==
    \/ \E p \in ParticipantIds : CreateMessage("s1", p, MaxMessages)
    \/ \E id \in MessageIds, p \in ParticipantIds : UpdateMessage(id, p)
    \/ \E id \in MessageIds, p \in ParticipantIds : DeleteMessage(id, p)
    \/ \E id \in MessageIds : GetMessage(id)
    \/ \E limit \in Limits : RecentMessages("s1", limit)
    \/ GetMessageStats("s1")
    \/ \E confirm \in BOOLEAN : ClearMessages("s1", confirm)

SpecMessages == Init /\ [][MessagesNext]_vars

\* Pages of a session read while messages are stored, deleted and cleared
PagingNext ==
    \/ \E s \in SessionIds, p \in ParticipantIds : CreateMessage(s, p, MaxPaged)
    \/ \E id \in MessageIds, p \in ParticipantIds : DeleteMessage(id, p)
    \/ \E s \in SessionIds, page \in Pages, page_size \in PageSizes,
          order \in {"asc", "desc"} : ListMessages(s, page, page_size, order)
    \/ \E s \in SessionIds, confirm \in BOOLEAN : ClearMessages(s, confirm)

SpecPaging == Init /\ [][PagingNext]_vars

----
\* The session endpoints and ParticipantService.join_session called one at a time

\* The ids of the sessions created, and of the sessions and participants created
SessionIdsMade == 1..MaxSessions
RowIdsMade == 1..(MaxSessions + MaxParticipants)
Titles == {"t1"}
SessionUpdates == {[title |-> "t2"]}
\* What the random source yields in one call of generate_session_code: a first
\* draw, and a second one for when the first is taken
DrawSeqs == [1..2 -> CodeDraws]

SBecomes(st) ==
    /\ db_sessions' = st.db_sessions
    /\ db_participants' = st.db_participants
    /\ id_seq' = st.id_seq
    /\ UNCHANGED <<clock, transport, active_connections, session_rooms, sio_rooms, tasks,
                   redis, db_messages, msg_seq, delivered,
                   db_users, oauth_sessions, responses, migrate, qr>>

\* create_session draws codes until one is unused; the call returns once that
\* happens within the draws given
CreateSession(caller, title, draws) ==
    /\ Cardinality({id \in 1..id_seq : \A x \in db_participants : x.id # id})
           < MaxSessions
    /\ generate_session_code(SCur, draws) # <<>>
    /\ SBecomes(create_session_endpoint(SCur, caller, title,
                                        generate_session_code(SCur, draws)).st)

GetSession(caller, session_id) ==
    /\ caller \in Callers
    /\ SBecomes(get_session_endpoint(SCur, caller, session_id).st)

UpdateSession(caller, session_id, update_data) ==
    /\ caller \in Callers
    /\ SBecomes(update_session_endpoint(SCur, caller, session_id, update_data).st)

DeleteSession(caller, session_id) ==
    /\ caller \in Callers
    /\ SBecomes(delete_session_endpoint(SCur, caller, session_id).st)

ActivateSession(caller, session_id) ==
    /\ caller \in Callers
    /\ SBecomes(activate_session_endpoint(SCur, caller, session_id, clock).st)

DeactivateSession(caller, session_id) ==
    /\ caller \in Callers
    /\ SBecomes(deactivate_session_endpoint(SCur, caller, session_id, clock).st)

JoinSessionDurably(session_code, nickname) ==
    /\ Cardinality(db_sessions) > 0
    /\ Cardinality(db_participants) < MaxParticipants
    /\ SBecomes(join_session_durably(SCur, session_code, nickname).st)

SessionsNext ==
    \/ \E caller \in Callers, title \in Titles, draws \in DrawSeqs :
          CreateSession(caller, title, draws)
    \/ \E caller \in Callers, id \in SessionIdsMade : GetSession(caller, id)
    \/ \E caller \in Callers, id \in SessionIdsMade, u \in SessionUpdates :
          UpdateSession(caller, id, u)
    \/ \E caller \in Callers, id \in SessionIdsMade : DeleteSession(caller, id)
    \/ \E caller \in Callers, id \in SessionIdsMade : ActivateSession(caller, id)
    \/ \E caller \in Callers, id \in SessionIdsMade : DeactivateSession(caller, id)

SpecSessions == Init /\ [][SessionsNext]_vars

\* Sessions created, joined durably by participants, read, renamed and deleted
SessionDeleteNext ==
    \/ \E caller \in Users, title \in Titles, draws \in DrawSeqs :
          CreateSession(caller, title, draws)
    \/ \E c \in CodeDraws : JoinSessionDurably(c, "ann")
    \/ \E caller \in Callers, id \in RowIdsMade : GetSession(caller, id)
    \/ \E caller \in Callers, id \in RowIdsMade, u \in SessionUpdates :
          UpdateSession(caller, id, u)
    \/ \E caller \in Callers, id \in RowIdsMade : DeleteSession(caller, id)

SpecSessionDelete == Init /\ [][SessionDeleteNext]_vars

----
\* POST /participants/join/{session_code} is a plain `def` endpoint: every request
\* runs in a worker thread with a database session of its own, so one request's
\* nickname query and its insert can have another request's statements between them.

DurableNicknames == {"ann", "bob"}

\* A join request that has passed its checks and has not inserted yet
JoinTask(session_id, nickname) ==
    [h |-> "join_session", session_id |-> session_id, nickname |-> nickname]

JoinsBecome(st, tk) ==
    /\ db_sessions' = st.db_sessions
    /\ db_participants' = st.db_participants
    /\ id_seq' = st.id_seq
    /\ tasks' = tk
    /\ UNCHANGED <<clock, transport, active_connections, session_rooms, sio_rooms,
                   redis, db_messages, msg_seq, delivered,
                   db_users, oauth_sessions, responses, migrate, qr>>

\* The request runs its queries; a refused request ends here
JoinChecks(session_code, nickname) ==
    /\ Cardinality(db_participants) + BagCardinality(tasks) < MaxJoins
    /\ LET checked == join_session_checks(SCur, session_code, nickname)
       IN  JoinsBecome(SCur, IF checked.status_code = 200
                             THEN tasks (+) SetToBag({JoinTask(checked.body.id, nickname)})
                             ELSE tasks)

\* The request inserts its row and commits
JoinInserts(t) ==
    /\ BagIn(t, tasks)
    /\ JoinsBecome(join_session_insert(SCur, t.session_id, t.nickname).st,
                   tasks (-) SetToBag({t}))

JoinsNext ==
    \/ \E caller \in Users, title \in Titles, draws \in DrawSeqs :
          CreateSession(caller, title, draws)
    \/ \E c \in CodeDraws, n \in DurableNicknames : JoinChecks(c, n)
    \/ \E session_id \in 1..(MaxSessions + MaxJoins), n \in DurableNicknames :
          JoinInserts(JoinTask(session_id, n))

SpecJoins == Init /\ [][JoinsNext]_vars

----
\* Requests to the authentication endpoints

Emails == {"a@x", "b@x"}
Passwords == {"pw1", "pw2"}

\* The bearer and reset tokens a client can present: any claims, expired from the
\* start or valid throughout, signed with the server's key or another one. A
\* decoded subject is a str, or missing
PresentedTokens ==
    {[claims |-> [sub |-> sub, email |-> None, type |-> type], exp |-> exp, key |-> key] :
        sub \in {Str(v) : v \in Users \cup Emails} \cup {NoRecord},
        type \in TokenTypes \cup {None},
        exp \in {0, access_token_expire},
        key \in {secret_key, "another-key"}}

ABecomes(st) ==
    /\ db_users' = st.db_users
    /\ oauth_sessions' = st.oauth_sessions
    /\ responses' = st.responses
    /\ UNCHANGED <<clock, transport, active_connections, session_rooms, sio_rooms, tasks,
                   redis, db_messages, msg_seq, delivered, db_sessions, db_participants,
                   id_seq, migrate, qr>>

\* uuid.uuid4 never repeats an id
Register(id, email, password, json_encoder) ==
    /\ \A u \in db_users : u.id # UUID(id)
    /\ ABecomes(register(ACur, id, email, password, clock, json_encoder).st)

GetCurrentUserProfile(token) ==
    /\ token \in PresentedTokens
    /\ ABecomes(get_current_user_profile(ACur, token, clock).st)

RefreshToken(token, json_encoder) ==
    /\ token \in PresentedTokens
    /\ ABecomes(refresh_token_endpoint(ACur, token, clock, json_encoder).st)

ForgotPassword(email) ==
    /\ email \in Emails
    /\ ABecomes(forgot_password(ACur, email, clock).st)

ResetPassword(token, new_password) ==
    /\ token \in PresentedTokens
    /\ ABecomes(reset_password(ACur, token, new_password, clock).st)

AuthNext ==
    \/ \E id \in Users, email \in Emails, password \in Passwords,
             json_encoder \in JsonEncoders :
          Register(id, email, password, json_encoder)
    \/ \E token \in PresentedTokens : GetCurrentUserProfile(token)
    \/ \E token \in PresentedTokens, json_encoder \in JsonEncoders :
          RefreshToken(token, json_encoder)
    \/ \E email \in Emails : ForgotPassword(email)
    \/ \E token \in PresentedTokens, new_password \in Passwords :
          ResetPassword(token, new_password)
    \/ Tick

SpecAuth == Init /\ [][AuthNext]_vars


----
\* Provider logins: flows started, callbacks interleaved at their awaits, unlinking

\* secrets.token_urlsafe(32) values
OAuthStates == {"state1", "state2"}
RedirectUrls == {None, "https://front/done"}
\* The callback requests: with or without code, with or without error
CallbackRequests ==
    [code : {None, "code1"}, state : OAuthStates, error : {None, "access_denied"}]
\* What the provider says about the authorised account; email can be missing
GoogleUserInfos ==
    {[id |-> "g1", email |-> "a@x"], [id |-> "g2", email |-> "b@x"],
     [id |-> "g1", email |-> None]}
\* How an outbound call to the provider ends
ProviderOutcomes == {"ok", "HTTPStatusError", "Exception"}

\* The callbacks that can be suspended at an await
CallbackTasks ==
    {CallbackTask(at, state, [verifier_of |-> state], redirect_url) :
        at \in {"exchange_code_for_token", "get_user_info"},
        state \in OAuthStates, redirect_url \in RedirectUrls}

OAuthBecomes(st, tk) ==
    /\ db_users' = st.db_users
    /\ oauth_sessions' = st.oauth_sessions
    /\ responses' = st.responses
    /\ tasks' = tk
    /\ UNCHANGED <<clock, transport, active_connections, session_rooms, sio_rooms,
                   redis, db_messages, msg_seq, delivered, db_sessions, db_participants,
                   id_seq, migrate, qr>>

\* A state value is issued once
GoogleLoginStart(state, redirect_url) ==
    /\ state \notin DOMAIN oauth_sessions
    /\ \A i \in 1..Len(responses) : responses[i].state # state
    /\ \A t \in BagToSet(tasks) : t.state # state
    /\ OAuthBecomes(google_login_start(ACur, state, [verifier_of |-> state],
                                       redirect_url).st, tasks)

\* A callback request arrives and runs to its first await, or to its answer
GoogleOAuthCallback(request) ==
    /\ Len(responses) + BagCardinality(tasks) < MaxCallbacks
    /\ LET r == google_oauth_callback(ACur, request)
       IN  OAuthBecomes(r.st, IF "at" \in DOMAIN r.ret
                              THEN tasks (+) SetToBag({r.ret}) ELSE tasks)

\* The token exchange of a suspended callback ends
CallbackExchanged(t, outcome) ==
    /\ BagIn(t, tasks) /\ t.at = "exchange_code_for_token"
    /\ LET r == callback_exchanged(ACur, t, outcome)
       IN  OAuthBecomes(r.st, IF "at" \in DOMAIN r.ret
                              THEN (tasks (-) SetToBag({t})) (+) SetToBag({r.ret})
                              ELSE tasks (-) SetToBag({t}))

\* The user-info call of a suspended callback ends and the callback runs to its end
CallbackUserInfo(t, outcome, google_user_info, id, json_encoder) ==
    /\ BagIn(t, tasks) /\ t.at = "get_user_info"
    /\ \A u \in db_users : u.id # UUID(id)
    /\ OAuthBecomes(callback_user_info(ACur, t, outcome, google_user_info, id, clock,
                                       json_encoder).st,
                    tasks (-) SetToBag({t}))

UnlinkGoogleAccount(token) ==
    /\ token \in PresentedTokens
    /\ OAuthBecomes(unlink_google_account(ACur, token, clock).st, tasks)

OAuthNext ==
    \/ \E state \in OAuthStates, redirect_url \in RedirectUrls :
          GoogleLoginStart(state, redirect_url)
    \/ \E request \in CallbackRequests : GoogleOAuthCallback(request)
    \/ \E t \in CallbackTasks, outcome \in ProviderOutcomes : CallbackExchanged(t, outcome)
    \/ \E t \in CallbackTasks, outcome \in ProviderOutcomes,
          google_user_info \in GoogleUserInfos, id \in Users,
          json_encoder \in JsonEncoders :
          CallbackUserInfo(t, outcome, google_user_info, id, json_encoder)
    \/ \E token \in PresentedTokens : UnlinkGoogleAccount(token)
    \/ \E id \in Users, email \in Emails, json_encoder \in JsonEncoders :
          Register(id, email, "pw1", json_encoder)

SpecOAuth == Init /\ [][OAuthNext]_vars


----
\* The gateway and the message service with the cache unavailable

\* RedisClient.connect failed at start-up: the client is None
InitCacheDown ==
    /\ ServerStart(None)
    /\ migrate = NoRecord
    /\ qr = NoRecord

SpecCacheDown == InitCacheDown /\ [][SeqNext]_vars


----
\* Runs of the migration tool

\* engine runs of one invocation: reset makes two
EngineRuns == 2

\* the command lines the operator types
Argvs ==
    {<<"migrate.py">>, <<"migrate.py", "upgrade">>, <<"migrate.py", "downgrade">>,
     <<"migrate.py", "downgrade", "rev1">>, <<"migrate.py", "current">>,
     <<"migrate.py", "history">>, <<"migrate.py", "revision">>,
     <<"migrate.py", "revision", "add users">>, <<"migrate.py", "revision", "">>,
     <<"migrate.py", "reset">>, <<"migrate.py", "status">>}

\* the lines the operator types at the prompt
Answers == {"y", "Y", "n", ""}

\* how the engine's runs end
EngineOutcomes == [1..EngineRuns -> {"ok", "failed"}]

\* the process is started
InitMigrate ==
    /\ ServerInit
    /\ qr = NoRecord
    /\ \E argv \in Argvs, confirm \in Answers, engine \in EngineOutcomes :
          migrate = [present |-> TRUE, pc |-> "started", argv |-> argv,
                     confirm |-> confirm, engine |-> engine, calls |-> <<>>, exit |-> 0]

\* the process runs main to its end
MigrateMain ==
    /\ migrate.present /\ migrate.pc = "started"
    /\ LET r == main(migrate.argv, migrate.confirm, migrate.engine)
       IN  migrate' = [migrate EXCEPT !.pc = "exited", !.calls = r.calls,
                                      !.exit = r.exit]
    /\ UNCHANGED <<clock, transport, active_connections, session_rooms, sio_rooms, tasks,
                   redis, db_messages, msg_seq, delivered, db_sessions, db_participants,
                   id_seq, db_users, oauth_sessions, responses, qr>>

MigrateNext == MigrateMain

SpecMigrate == InitMigrate /\ [][MigrateNext]_vars


----
\* Join links made and scanned

\* the codes SessionService.generate_session_code can produce
SessionCodes == [1..CodeLen -> UpperChars \cup DigitChars]

\* the texts a scanner can hand in: up to MaxHead leading elements, CodeLen - 1 to
\* CodeLen + 1 code characters, and at most one more element
Heads == UNION {[1..n -> {join_prefix[1], "-"}] : n \in 0..MaxHead}
Mids == UNION {[1..n -> UpperChars \cup DigitChars] : n \in (CodeLen - 1)..(CodeLen + 1)}
Tails == {<<>>, <<"a">>, <<"-">>, join_prefix}
ScannedTexts == {h \o m \o t : h \in Heads, m \in Mids, t \in Tails}

\* a session code was generated, or a text was scanned
InitQr ==
    /\ ServerInit
    /\ migrate = NoRecord
    /\ \/ \E code \in SessionCodes :
             qr = [present |-> TRUE, pc |-> "code", code |-> code, qr_data |-> <<>>,
                   ret |-> NoRecord]
       \/ \E qr_data \in ScannedTexts :
             qr = [present |-> TRUE, pc |-> "scanned", code |-> <<>>,
                   qr_data |-> qr_data, ret |-> NoRecord]

QrBecomes(q) ==
    /\ qr' = q
    /\ UNCHANGED <<clock, transport, active_connections, session_rooms, sio_rooms, tasks,
                   redis, db_messages, msg_seq, delivered, db_sessions, db_participants,
                   id_seq, db_users, oauth_sessions, responses, migrate>>

\* the join link of the generated code is made and shown
GenerateShortUrl ==
    /\ qr.present /\ qr.pc = "code"
    /\ QrBecomes([qr EXCEPT !.pc = "scanned", !.qr_data = generate_short_url(qr.code)])

\* the scanned text is verified
VerifyQrCodeData ==
    /\ qr.present /\ qr.pc = "scanned"
    /\ QrBecomes([qr EXCEPT !.pc = "verified", !.ret = verify_qr_code_data(qr.qr_data)])

QrNext == GenerateShortUrl \/ VerifyQrCodeData

SpecQr == InitQr /\ [][QrNext]_vars


----
\* Create requests running side by side in worker threads

\* A create request of user u inside create_session
CreateTask(u, pc, code, existing) ==
    [h |-> "create_session", user |-> u, pc |-> pc, code |-> code, existing |-> existing]

InFlight(u) == \E t \in BagToSet(tasks) : t.user = u
TaskOf(u) == CHOOSE t \in BagToSet(tasks) : t.user = u

CodesBecome(st, tk, rs) ==
    /\ db_sessions' = st.db_sessions
    /\ id_seq' = st.id_seq
    /\ tasks' = tk
    /\ responses' = rs
    /\ UNCHANGED <<clock, transport, active_connections, session_rooms, sio_rooms,
                   redis, db_messages, msg_seq, delivered, db_participants,
                   db_users, oauth_sessions, migrate, qr>>

\* A request of user u enters generate_session_code
CreateStarts(u) ==
    /\ ~InFlight(u)
    /\ Len(responses) + BagCardinality(tasks) < MaxCreates
    /\ CodesBecome(SCur, tasks (+) SetToBag({CreateTask(u, "loop", <<>>, NoRecord)}),
                   responses)

\* The loop draws a code and queries storage for it
CodeDrawn(u, code) ==
    /\ InFlight(u) /\ TaskOf(u).pc = "loop"
    /\ LET d == code_drawn(SCur, code)
       IN  CodesBecome(SCur,
                       (tasks (-) SetToBag({TaskOf(u)}))
                           (+) SetToBag({CreateTask(u, "queried", d.code, d.existing)}),
                       responses)

\* The loop draws a code that no stored session has
UnusedCodeDrawn(u) ==
    \E code \in CodeDraws :
        get_session_by_code(SCur, code) = NoRecord /\ CodeDrawn(u, code)

\* The loop tests what the query found: the code is returned, or the loop goes on
CodeChecked(u) ==
    /\ InFlight(u) /\ TaskOf(u).pc = "queried"
    /\ LET t == TaskOf(u)
       IN  CodesBecome(SCur,
                       (tasks (-) SetToBag({t}))
                           (+) SetToBag({IF code_unused(t.existing)
                                         THEN CreateTask(u, "returned", t.code, NoRecord)
                                         ELSE CreateTask(u, "loop", <<>>, NoRecord)}),
                       responses)

\* create_session adds the session with the returned code and commits
CreateCommits(u) ==
    /\ InFlight(u) /\ TaskOf(u).pc = "returned"
    /\ LET t == TaskOf(u)
           r == create_session_commit(SCur, u, "t1", t.code)
       IN  CodesBecome(r.st, tasks (-) SetToBag({t}),
                       Append(responses, [user |-> u, code |-> t.code,
                                          status_code |-> r.ret.status_code]))

CodesNext ==
    \/ \E u \in Users : CreateStarts(u)
    \/ \E u \in Users, code \in CodeDraws : CodeDrawn(u, code)
    \/ \E u \in Users : CodeChecked(u)
    \/ \E u \in Users : CreateCommits(u)

SpecCodes == Init /\ [][CodesNext]_vars

\* Every request in flight goes on running, and the random source is fair: a loop
\* that keeps drawing does draw a code that is not in use, if there is one
SpecCodesFair ==
    /\ SpecCodes
    /\ \A u \in Users :
          /\ WF_vars(CodeChecked(u))
          /\ WF_vars(CreateCommits(u))
          /\ SF_vars(UnusedCodeDrawn(u))


----
\* The handlers of the connections interleaved at their awaits

\* Each event starts its handler as a task of its own, which runs to its first await;
\* suspended handlers resume in any order
ConnNext ==
    \/ \E sid \in Sids :
        /\ BagCardinality(tasks) < MaxTasks
        /\ \/ Start("connect", sid, None)
           \/ \E s \in SessionIds :
                Start("join_session", sid,
                      [session_id |-> s, nickname |-> "ann",
                       participant_id |-> IF sid = "c1" THEN "p1" ELSE "p2"])
           \/ Start("leave_session", sid, None)
           \/ Start("disconnect", sid, None)
    \/ \E t \in BagToSet(tasks) : Resume(t)

SpecConn == Init /\ [][ConnNext]_vars


----
\* Sessions created, updated with any of the fields of SessionUpdate (is_active
\* included), activated and deactivated by callers that hold valid tokens

\* SessionUpdate with exclude_unset: the fields the request supplies
LifecycleUpdates == SessionUpdates \cup {[is_active |-> TRUE], [is_active |-> FALSE]}

LifecycleNext ==
    \/ \E caller \in Users, title \in Titles, draws \in DrawSeqs :
          CreateSession(caller, title, draws)
    \/ \E caller \in Users, id \in SessionIdsMade, u \in LifecycleUpdates :
          UpdateSession(caller, id, u)
    \/ \E caller \in Users, id \in SessionIdsMade : ActivateSession(caller, id)
    \/ \E caller \in Users, id \in SessionIdsMade : DeactivateSession(caller, id)

SpecLifecycle == Init /\ [][LifecycleNext]_vars


----
\* Properties of the gateway

\* What handling event h of connection sid to completion in the current state yields
Outcome(h, sid, data) == run_handler(Cur, clock, Task(h, sid, data))

Connected(sid) == transport[sid] = "connected"

\* The connection's binding names a session
Bound(sid) ==
    sid \in DOMAIN active_connections /\ ~Falsy(active_connections[sid].session_id)

\* The connections whose current binding names session s
BoundTo(s) ==
    {sid \in DOMAIN active_connections : active_connections[sid].session_id = s}

InRoomSet(rooms, s, sid) == s \in DOMAIN rooms /\ sid \in rooms[s]

OfEvent(evs, name) == SelectSeq(evs, LAMBDA e : e.event = name)

\* C1: a connection id is in the room set of session S if and only if the
\* connection's current binding names S (so never in the room sets of two sessions),
\* after any sequence of connect, join_session, leave_session and disconnect events.
C1_RoomSetIffBinding ==
    \A sid \in Sids, s \in SessionIds :
        InRoomSet(session_rooms, s, sid) <=> sid \in BoundTo(s)

\* C2: once a connection's disconnect has been processed it has no record in the
\* active-connection map and its id is in no room set; and its participant is in
\* the presence set of no session it had joined, which in the states where no other
\* connection is open means that every presence set is empty.
C2_DisconnectTearsDown ==
    /\ \A sid \in Sids :
          transport[sid] = "gone" =>
              /\ sid \notin DOMAIN active_connections
              /\ \A s \in SessionIds : ~InRoomSet(session_rooms, s, sid)
    /\ (\A sid \in Sids : transport[sid] \in {"new", "gone"}) =>
          \A s \in SessionIds : smembers(redis, s) = {}

\* C3: every new_message broadcast for session S goes to exactly the connections
\* whose current binding names S: to each of them, and to no connection that is
\* unbound or bound to another session.
C3_NewMessageToBoundOnly ==
    \A sid \in Sids, d \in SendInputs :
        Connected(sid) =>
            LET evs == OfEvent(Outcome("send_message", sid, d).evs, "new_message")
            IN  \A i \in 1..Len(evs) : evs[i].to = BoundTo(evs[i].session_id)

\* The send on sid with input d yields exactly one event: a new_message to the room
\* of the sender's session with the trimmed text and the sender's participant id and
\* nickname; and a failed durable write leaves the stored messages and the
\* recent-message cache as they were.
OneNewMessage(sid, d) ==
    LET info == active_connections[sid]
        r == Outcome("send_message", sid, d)
    IN  /\ Len(r.evs) = 1
        /\ r.evs[1].event = "new_message"
        /\ r.evs[1].to = ToRoom(Cur, info.session_id)
        /\ r.evs[1].data.message = strip(d.message)
        /\ r.evs[1].data.participant_id = info.participant_id
        /\ r.evs[1].data.nickname = info.nickname
        /\ Len(r.st.delivered) = Len(delivered) + 1
        /\ ~d.db_ok => /\ r.st.db_messages = db_messages
                       /\ r.st.redis.recent = redis.recent

\* C4 as stated: every send_message on a bound connection whose trimmed text is
\* non-empty and passes content validation is broadcast as exactly one new_message
\* with that text and the sender's participant id and nickname, whether or not the
\* durable write succeeds, and a failed write stores and caches nothing.
C4_OneBroadcastPerValidText ==
    \A sid \in Sids, d \in SendInputs :
        (/\ Connected(sid) /\ Bound(sid)
         /\ strip(d.message) # <<>>
         /\ validate_content(strip(d.message)))
        => OneNewMessage(sid, d)

\* C4 with the whole message-create request validated: every send_message on a bound
\* connection whose trimmed text is non-empty and whose message-create request (the
\* text with the binding's session id, participant id and nickname) passes
\* validation is broadcast as exactly one new_message with that text and the
\* sender's participant id and nickname, whether or not the durable write succeeds,
\* and a failed write stores and caches nothing.
C4_OneBroadcastPerValidRequest ==
    \A sid \in Sids, d \in SendInputs :
        (/\ Connected(sid) /\ Bound(sid)
         /\ strip(d.message) # <<>>
         /\ MessageCreate_ok(active_connections[sid].session_id,
                             active_connections[sid].participant_id,
                             active_connections[sid].nickname, strip(d.message)))
        => OneNewMessage(sid, d)

\* A message was broadcast although its durable write failed: it is in the log of
\* broadcasts and neither stored nor cached
C4_Witness ==
    \E i \in 1..Len(delivered) :
        /\ ~delivered[i].durable
        /\ \A j \in 1..Len(db_messages) : db_messages[j].id # delivered[i].id
        /\ \A s \in SessionIds : \A j \in 1..Len(redis.recent[s]) :
               redis.recent[s][j].id # delivered[i].id

\* C5: within one session room the new_message events are broadcast in the order in
\* which the gateway processed their send_message events (the order of the sequence
\* numbers taken when a send is processed), for every interleaving of the handlers.
C5_BroadcastInProcessingOrder ==
    \A i, j \in 1..Len(delivered) :
        (i < j /\ delivered[i].session_id = delivered[j].session_id)
        => delivered[i].id < delivered[j].id

\* Two sends to one room were processed while both handlers were still in flight
C5_Witness ==
    /\ Len(delivered) = 2
    /\ delivered[1].session_id = delivered[2].session_id
    /\ BagCardinality(tasks) = 2
    /\ \A t \in BagToSet(tasks) : t.h = "send_message"

\* Empty or whitespace-only text
Blank(text) == \A i \in 1..Len(text) : text[i] = " "

\* C6: send_message stores and broadcasts nothing unless the sender is bound to a
\* session and its trimmed text is non-empty; an unbound sender gets one error event
\* addressed to it alone; a bound sender's empty or whitespace-only text produces no
\* event, no stored message and no cache change.
C6_SendNeedsBindingAndText ==
    \A sid \in Sids, d \in SendInputs :
        Connected(sid) =>
            LET r == Outcome("send_message", sid, d)
            IN  /\ (~Bound(sid) \/ Blank(d.message)) =>
                      /\ r.st.db_messages = db_messages
                      /\ r.st.delivered = delivered
                      /\ r.st.redis.recent = redis.recent
                      /\ OfEvent(r.evs, "new_message") = <<>>
                /\ ~Bound(sid) => r.evs = <<[event |-> "error", to |-> {sid}]>>
                /\ (Bound(sid) /\ Blank(d.message)) => (r.evs = <<>> /\ r.st = Cur)

\* An unbound connection and a bound one are open, a message is already stored and
\* cached, and the unbound one's send is answered with an error while the bound
\* one's whitespace-only send is dropped
C6_Witness ==
    \E a, b \in Sids :
        /\ Connected(a) /\ ~Bound(a)
        /\ Connected(b) /\ Bound(b)
        /\ db_messages # <<>>
        /\ redis.recent[active_connections[b].session_id] # <<>>
        /\ Len(Outcome("send_message", a, [message |-> <<"a">>, db_ok |-> TRUE]).evs) = 1
        /\ Outcome("send_message", b, [message |-> <<" ">>, db_ok |-> TRUE]).evs = <<>>

\* C7: a join_session whose payload lacks, or has empty, the session id, the
\* participant id or the nickname emits one error event to that connection only and
\* changes nothing: not the binding, not a room set, not the presence monitor.
C7_InvalidJoinRejected ==
    \A sid \in Sids :
        Connected(sid) =>
            \A d \in JoinPayloads(sid) :
                (Falsy(d.session_id) \/ Falsy(d.participant_id) \/ Falsy(d.nickname)) =>
                    LET r == Outcome("join_session", sid, d)
                    IN  /\ r.evs = <<[event |-> "error", to |-> {sid}]>>
                        /\ r.st = Cur

\* A bound connection in a session with presence, whose join_session without a
\* nickname is answered with an error
C7_Witness ==
    \E sid \in Sids :
        /\ Connected(sid) /\ Bound(sid)
        /\ smembers(redis, active_connections[sid].session_id) # {}
        /\ \E d \in JoinPayloads(sid) :
              /\ ~Falsy(d.session_id) /\ Falsy(d.nickname)
              /\ d.session_id # active_connections[sid].session_id
              /\ Outcome("join_session", sid, d).evs = <<error_event(Cur, sid)>>

\* C8: leave_session on a bound connection takes it out of its session's room set,
\* takes its participant out of that session's presence set and deletes the
\* participant's presence record, empties the binding, and keeps the connection's
\* record with its connect time; on an unbound connection it changes nothing and
\* emits nothing.
C8_LeaveSessionEffect ==
    \A sid \in Sids :
        Connected(sid) =>
            LET info == active_connections[sid]
                r == Outcome("leave_session", sid, None)
            IN  IF Bound(sid)
                THEN /\ ~InRoomSet(r.st.session_rooms, info.session_id, sid)
                     /\ info.participant_id \notin smembers(r.st.redis, info.session_id)
                     /\ ~r.st.redis.status[info.participant_id].present
                     /\ DOMAIN r.st.active_connections = DOMAIN active_connections
                     /\ r.st.active_connections[sid] =
                            [connected_at |-> info.connected_at, session_id |-> None,
                             participant_id |-> None, nickname |-> None]
                ELSE r.st = Cur /\ r.evs = <<>>

\* The only connection ever opened has joined a session and left it
C8_Witness ==
    /\ Connected("c1") /\ ~Bound("c1")
    /\ transport["c2"] = "new"
    /\ \E s \in DOMAIN session_rooms : session_rooms[s] = {}
    /\ \A s \in SessionIds : smembers(redis, s) = {}
    /\ Outcome("leave_session", "c1", None).evs = <<>>

\* The participant's presence record is live: it was added and has sent each
\* heartbeat less than default_ttl after the previous one (or after the add)
Present(p) == redis.status[p].present

Listed(r, s, p, now) == {e \in get_session_participants(r, s, now) : e.id = p}

\* C9: a participant added to a session's presence who keeps sending heartbeats at
\* intervals shorter than the TTL is in that session's member set, is counted by
\* count and is returned by list-by-session.
C9_HeartbeatsKeepMembership ==
    \A p \in ParticipantIds :
        Present(p) =>
            LET s == redis.status[p].session_id
            IN  /\ p \in smembers(redis, s)
                /\ get_participant_count(redis, s) >= 1
                /\ Listed(redis, s, p, clock) # {}

\* C10: a participant who has just sent a heartbeat is listed online by
\* list-by-session; and once more than the online window has passed without a
\* heartbeat, list-by-session lists the same participant with is_online false.
C10_OnlineThenOffline ==
    \A p \in ParticipantIds :
        Present(p) =>
            LET s == redis.status[p].session_id
                beaten == update_heartbeat(redis, p, clock)
                later == clock + default_ttl + 1
            IN  /\ \E e \in Listed(beaten, s, p, clock) : e.is_online
                /\ \E e \in Listed(purge(beaten, later), s, p, later) : ~e.is_online

----
\* Properties of the message service

\* Message ids stored so far, and the stored row of one
StoredIds == {db_messages[i].id : i \in 1..Len(db_messages)}
Row(id) == db_messages[CHOOSE i \in 1..Len(db_messages) : db_messages[i].id = id]
Live(id) == id \in StoredIds /\ ~Row(id).is_deleted

\* C11: update and delete of a message take effect only when the participant id the
\* caller supplies equals the message's stored participant id; with any other
\* participant id the service returns nothing / False, the API answers 404, and the
\* stored rows and the message caches are unchanged.
C11_OnlyAuthorEditsOrDeletes ==
    \A id \in StoredIds, p \in ParticipantIds :
        Live(id) =>
            LET u  == update_message(Cur, id, p, <<"b">>, clock)
                ue == update_message_endpoint(Cur, id, p, <<"b">>, clock)
                d  == delete_message(Cur, id, p, clock)
                de == delete_message_endpoint(Cur, id, p, clock)
                j  == CHOOSE i \in 1..Len(db_messages) : db_messages[i].id = id
            IN  IF p = Row(id).participant_id
                THEN /\ u.st.db_messages[j].content = <<"b">>
                     /\ u.st.db_messages[j].is_edited
                     /\ u.st.db_messages[j].edit_count = Row(id).edit_count + 1
                     /\ d.ret = TRUE /\ de.ret = 200
                     /\ d.st.db_messages[j].is_deleted
                ELSE /\ u.ret = NoRecord /\ ue.ret = 404
                     /\ d.ret = FALSE /\ de.ret = 404
                     /\ u.st = Cur /\ ue.st = Cur /\ d.st = Cur /\ de.st = Cur

\* A message of "p1" is stored, not deleted, cached under its id and in the recent
\* list of its session, and "p2" asks to edit and to delete it
C11_Witness ==
    \E id \in StoredIds :
        /\ Live(id) /\ Row(id).participant_id = "p1"
        /\ id \in DOMAIN redis.message
        /\ redis.recent[Row(id).session_id] # <<>>
        /\ update_message_endpoint(Cur, id, "p2", <<"b">>, clock).ret = 404
        /\ delete_message_endpoint(Cur, id, "p2", clock).ret = 404

\* The ids in a list of message responses
IdsOf(messages) == {messages[i].id : i \in 1..Len(messages)}
\* The rows of a session that are not deleted
LiveIn(s) == {id \in StoredIds : Row(id).session_id = s /\ ~Row(id).is_deleted}

\* C12: a deleted message is in no result of list-by-session, recent and get-by-id,
\* and is not counted by stats, in any later call, whether the answer comes from a
\* cache or from storage; its row is still stored, with is_deleted true and a
\* deleted_at time, and no row is ever removed.
C12_DeletedMessageExcluded ==
    /\ Len(db_messages) = msg_seq
    /\ \A id \in StoredIds :
        Row(id).is_deleted =>
            LET s == Row(id).session_id
            IN  /\ Row(id).deleted_at # NoTime
                /\ get_message(Cur, id, clock).ret = NoRecord
                /\ \A page \in Pages, page_size \in PageSizes, order \in {"asc", "desc"} :
                      LET l == get_session_messages(Cur, s, page, page_size, order)
                      IN  id \notin IdsOf(l.messages)
                          /\ l.total_count = Cardinality(LiveIn(s))
                /\ \A limit \in Limits :
                      id \notin IdsOf(get_recent_messages(Cur, s, limit, clock).ret)
                /\ LET t == get_message_stats(Cur, s, clock).ret
                   IN  /\ t.total_messages <= Cardinality(LiveIn(s))
                       /\ t.total_participants
                              <= Cardinality({Row(m).participant_id : m \in LiveIn(s)})

\* One message of a session is deleted and another is not, and the session's recent
\* list, its statistics and the other message are cached
C12_Witness ==
    \E id \in StoredIds, other \in StoredIds :
        /\ Row(id).is_deleted /\ ~Row(other).is_deleted
        /\ Row(id).session_id = Row(other).session_id
        /\ redis.recent[Row(id).session_id] # <<>>
        /\ redis.stats[Row(id).session_id].present
        /\ other \in DOMAIN redis.message

\* The position of a non-deleted message among the non-deleted messages of its
\* session in created-at order, counted from 1
Position(id, order) ==
    1 + Cardinality({m \in LiveIn(Row(id).session_id) :
                        IF order = "desc" THEN Row(m).created_at > Row(id).created_at
                                          ELSE Row(m).created_at < Row(id).created_at})

\* C13: for a session with N non-deleted messages, list-by-session with page p and
\* page size s returns exactly the messages at positions (p-1)*s+1 .. min(p*s, N) of
\* the chosen created-at ordering, in that order, reports total_count = N on every
\* page and has_next iff p*s < N; deleted rows are neither counted nor returned.
C13_PageOfCreatedAtOrdering ==
    \A s \in SessionIds, p \in Pages, size \in PageSizes, order \in {"asc", "desc"} :
        LET l == get_session_messages(Cur, s, p, size, order)
            N == Cardinality(LiveIn(s))
            last == Min(p * size, N)
        IN  /\ l.total_count = N
            /\ l.has_next <=> (p * size < N)
            /\ Len(l.messages) = IF last > (p - 1) * size THEN last - (p - 1) * size ELSE 0
            /\ \A k \in 1..Len(l.messages) :
                  /\ l.messages[k].id \in LiveIn(s)
                  /\ Position(l.messages[k].id, order) = (p - 1) * size + k

\* A session holds three non-deleted messages: with page size 2 the first page is
\* full and has a next page, the second holds the one remaining message and has none
C13_Witness ==
    /\ Cardinality(LiveIn("s1")) = 3
    /\ Len(get_session_messages(Cur, "s1", 1, 2, "asc").messages) = 2
    /\ get_session_messages(Cur, "s1", 1, 2, "asc").has_next
    /\ Len(get_session_messages(Cur, "s1", 2, 2, "desc").messages) = 1
    /\ ~get_session_messages(Cur, "s1", 2, 2, "desc").has_next

\* C14: the bulk clear called without confirm=true is answered 400 and changes no
\* message row of any session and no cache entry.
C14_ClearNeedsConfirm ==
    \A s \in SessionIds :
        LET r == clear_session_messages(Cur, s, FALSE, clock)
        IN  r.ret = 400 /\ r.st = Cur

\* Unconfirmed clear is asked for a session that holds a non-deleted message which
\* is in the recent-message cache
C14_Witness ==
    \E s \in SessionIds :
        /\ LiveIn(s) # {}
        /\ redis.recent[s] # <<>>
        /\ clear_session_messages(Cur, s, FALSE, clock).ret = 400

\* C15: the bulk clear called with confirm=true succeeds and marks every message of
\* the session that is not yet deleted as deleted (is_deleted true, deleted_at set);
\* no row is removed and the messages of other sessions do not change.
C15_ConfirmedClearDeletesAll ==
    \A s \in SessionIds :
        LET r == clear_session_messages(Cur, s, TRUE, clock)
            rows == r.st.db_messages
        IN  /\ r.ret = 200
            /\ Len(rows) = Len(db_messages)
            /\ \A i \in 1..Len(rows) :
                  IF db_messages[i].session_id = s
                  THEN rows[i].is_deleted /\ rows[i].deleted_at # NoTime
                  ELSE rows[i] = db_messages[i]

----
\* Properties of the session service

\* C16: every stored session_code is a string of 6 characters over A-Z and 0-9, and
\* no two stored sessions have the same code, however many sessions were created
\* one after the other.
C16_SessionCodesWellFormedAndDistinct ==
    /\ \A x \in db_sessions :
          /\ Len(x.session_code) = 6
          /\ \A i \in 1..Len(x.session_code) :
                x.session_code[i] \in ascii_uppercase \cup digits
    /\ \A x, y \in db_sessions : x.session_code = y.session_code => x = y

\* Two sessions are stored, and a further create whose first draw is a code in use
\* gets the second draw
C16_Witness ==
    /\ Cardinality(db_sessions) = 2
    /\ \E draws \in DrawSeqs :
          /\ \E x \in db_sessions : x.session_code = draws[1]
          /\ generate_session_code(SCur, draws) = draws[2]
          /\ \A x \in db_sessions : x.session_code # draws[2]

\* The stored row of a session after a call
RowAfter(r, session_id) == get_session_by_id(r.st, session_id)

\* C17: a newly created session is inactive, has no started_at and no ended_at and a
\* participant count of 0; activate by its owner makes it active and sets
\* started_at; a following deactivate makes it inactive and sets ended_at.
C17_SessionLifecycle ==
    /\ \A user \in Users, title \in Titles, draws \in DrawSeqs :
          generate_session_code(SCur, draws) # <<>> =>
              LET c == create_session_endpoint(SCur, user, title,
                                               generate_session_code(SCur, draws))
                  a == activate_session_endpoint(c.st, user, c.ret.body.id, clock)
                  d == deactivate_session_endpoint(a.st, user, c.ret.body.id, clock)
              IN  /\ c.ret.status_code = 201
                  /\ ~c.ret.body.is_active
                  /\ c.ret.body.started_at = NoTime /\ c.ret.body.ended_at = NoTime
                  /\ c.ret.body.participant_count = 0
                  /\ RowAfter(c, c.ret.body.id).presenter_id = user
                  /\ ~RowAfter(c, c.ret.body.id).is_active
                  /\ a.ret.status_code = 200
                  /\ RowAfter(a, c.ret.body.id).is_active
                  /\ RowAfter(a, c.ret.body.id).started_at = clock
                  /\ RowAfter(a, c.ret.body.id).ended_at = NoTime
                  /\ d.ret.status_code = 200
                  /\ ~RowAfter(d, c.ret.body.id).is_active
                  /\ RowAfter(d, c.ret.body.id).started_at = clock
                  /\ RowAfter(d, c.ret.body.id).ended_at = clock
    /\ \A x \in db_sessions :
          LET a == activate_session_endpoint(SCur, x.presenter_id, x.id, clock)
              d == deactivate_session_endpoint(a.st, x.presenter_id, x.id, clock)
              again == activate_session_endpoint(d.st, x.presenter_id, x.id, clock)
          IN  /\ RowAfter(a, x.id).is_active /\ RowAfter(a, x.id).started_at # NoTime
              /\ ~RowAfter(d, x.id).is_active /\ RowAfter(d, x.id).ended_at # NoTime
              /\ RowAfter(again, x.id).is_active
              /\ RowAfter(again, x.id).started_at # NoTime

\* A session with a participant is stored while another session is created, and a
\* stored session that was never activated is activated and then deactivated
C17_Witness ==
    /\ db_participants # {}
    /\ \E draws \in DrawSeqs : generate_session_code(SCur, draws) # <<>>
    /\ \E x \in db_sessions :
          /\ ~x.is_active /\ x.started_at = NoTime /\ x.ended_at = NoTime
          /\ RowAfter(activate_session_endpoint(SCur, x.presenter_id, x.id, clock),
                      x.id).is_active

\* C18: update, delete, activate and deactivate of a session asked for by a user who
\* is not its owner are answered 404, as they are for a session id that does not
\* exist, and leave the stored rows unchanged.
C18_NonOwnerGetsNotFound ==
    \A user \in Users, id \in RowIdsMade :
        (\A x \in db_sessions : x.id = id => x.presenter_id # user) =>
            /\ \A u \in SessionUpdates :
                  LET r == update_session_endpoint(SCur, user, id, u)
                  IN  r.ret.status_code = 404 /\ r.st = SCur
            /\ LET r == delete_session_endpoint(SCur, user, id)
               IN  r.ret.status_code = 404 /\ r.st = SCur
            /\ LET r == activate_session_endpoint(SCur, user, id, clock)
               IN  r.ret.status_code = 404 /\ r.st = SCur
            /\ LET r == deactivate_session_endpoint(SCur, user, id, clock)
               IN  r.ret.status_code = 404 /\ r.st = SCur

\* A session of "u1" is stored and inactive, "u2" asks to activate it, and an id
\* that no session has is asked for as well
C18_Witness ==
    /\ \E x \in db_sessions :
          /\ x.presenter_id = "u1" /\ ~x.is_active
          /\ activate_session_endpoint(SCur, "u2", x.id, clock).ret.status_code = 404
    /\ \E id \in RowIdsMade :
          /\ \A x \in db_sessions : x.id # id
          /\ activate_session_endpoint(SCur, "u2", id, clock).ret.status_code = 404

\* C19 as stated: GET of a session's detail by a user who is not its owner is
\* answered 403, and the same request from a caller who is not authenticated, or
\* for a session id that does not exist, is answered 404.
C19_UnauthenticatedGetsNotFound ==
    \A caller \in Callers, id \in RowIdsMade :
        LET r == get_session_endpoint(SCur, caller, id)
        IN  IF caller \notin Users THEN r.ret.status_code = 404
            ELSE IF \A x \in db_sessions : x.id # id THEN r.ret.status_code = 404
            ELSE IF get_session_by_id(SCur, id).presenter_id # caller
                 THEN r.ret.status_code = 403
            ELSE TRUE

\* C19, amended: GET of a session's detail by a user who is not its owner is
\* answered 403 and by a user for a session id that does not exist 404; a caller who
\* is not authenticated is refused before the lookup, with 403 when the request has
\* no credentials and 401 when its token is invalid, whether the id exists or not.
C19_GetDetailStatus ==
    \A caller \in Callers, id \in RowIdsMade :
        LET r == get_session_endpoint(SCur, caller, id)
        IN  /\ r.st = SCur
            /\ IF caller = "no_credentials" THEN r.ret.status_code = 403
               ELSE IF caller = "invalid_token" THEN r.ret.status_code = 401
               ELSE IF \A x \in db_sessions : x.id # id THEN r.ret.status_code = 404
               ELSE IF get_session_by_id(SCur, id).presenter_id # caller
                    THEN r.ret.status_code = 403
               ELSE r.ret.status_code = 200

\* A session of "u1" is stored: "u2" asks for its detail, a caller without
\* credentials asks for it, and "u2" asks for an id no session has
C19_Witness ==
    \E x \in db_sessions, id \in RowIdsMade :
        /\ x.presenter_id = "u1"
        /\ \A y \in db_sessions : y.id # id
        /\ get_session_endpoint(SCur, "u2", x.id).ret.status_code = 403
        /\ get_session_endpoint(SCur, "no_credentials", x.id).ret.status_code = 403
        /\ get_session_endpoint(SCur, "u2", id).ret.status_code = 404

\* C20: deleting a session by its owner succeeds whether or not the session has
\* durable participants; afterwards the session cannot be fetched by id or by its
\* join code (404) and no participant row refers to it.
C20_OwnerDeleteRemovesSessionAndParticipants ==
    \A x \in db_sessions :
        LET r == delete_session_endpoint(SCur, x.presenter_id, x.id)
        IN  /\ r.ret.status_code = 204
            /\ get_session_endpoint(r.st, x.presenter_id, x.id).ret.status_code = 404
            /\ get_session_by_code_endpoint(r.st, x.session_code).ret.status_code = 404
            /\ \A p \in r.st.db_participants : p.session_id # x.id

----
\* Properties of durable participation

\* C21: no two durable participants of one session have the same nickname, while
\* one nickname may be used in different sessions; a join with a nickname already
\* used in the session is answered 409 and creates no row, also when two joins for
\* the same session and nickname are interleaved between check and insert.
C21_NicknameUniqueInSession ==
    /\ \A x, y \in db_participants :
          (x.session_id = y.session_id /\ x.nickname = y.nickname) => x = y
    /\ \A x \in db_participants, session \in db_sessions :
          LET r == join_session_durably(SCur, session.session_code, x.nickname)
          IN  IF session.id = x.session_id
              THEN r.ret.status_code = 409 /\ r.st = SCur
              ELSE (\A y \in db_participants :
                        y.session_id = session.id => y.nickname # x.nickname)
                   => r.ret.status_code = 200

----
\* Properties of credentials and tokens

\* The operations that take a token, with the type each expects
TokenAccepted(operation, token) ==
    CASE operation = "access" ->
             get_current_user_from_token(ACur, token, clock).status_code = 200
      [] operation = "refresh" ->
             verify_refresh_token(token, clock).status_code = 200
      [] operation = "password_reset" ->
             LET email == verify_password_reset_token(token, clock)
             IN  ~Raised(email) /\ email # NoRecord

\* C22: a token is accepted by an operation only if its type claim is the type
\* the operation expects: the access-token guard accepts only access tokens, the
\* refresh endpoint only refresh tokens, and password reset only password_reset
\* tokens.
C22_TokenTypeMatchesOperation ==
    \A token \in PresentedTokens :
        \A operation \in {"access", "refresh", "password_reset"} :
            TokenAccepted(operation, token) => token.claims.type = operation

\* A refresh token of a registered user, accepted by the refresh endpoint and
\* refused by the access-token guard, and a reset token for the user's email that
\* resets the password
C22_Witness ==
    \E u \in db_users, token, reset \in PresentedTokens :
        /\ token.claims.sub = Str(u.id.v)
        /\ TokenAccepted("refresh", token)
        /\ get_current_user_from_token(ACur, token, clock).status_code = 401
        /\ ~TokenAccepted("password_reset", token)
        /\ TokenAccepted("password_reset", reset)
        /\ u.updated_at # NoTime
        /\ \E access \in PresentedTokens :
              /\ TokenAccepted("access", access)
              /\ ~TokenAccepted("refresh", access)


\* The storage without the account of an email
WithoutAccount(st, email) ==
    [st EXCEPT !.db_users = {u \in @ : u.email # email}]

\* C23: forgot-password answers the same and leaves stored state unchanged whether
\* or not the submitted email belongs to an account: the run on the current
\* storage and the run on the storage without that account return the same
\* response, and each leaves its storage as it was.
C23_ForgotPasswordIndistinguishable ==
    \A email \in Emails :
        LET exists == forgot_password(ACur, email, clock)
            missing == forgot_password(WithoutAccount(ACur, email), email, clock)
        IN  /\ exists.ret = missing.ret
            /\ exists.st = ACur
            /\ missing.st = WithoutAccount(ACur, email)

\* One email belongs to an account and the other does not, and both requests are
\* answered 200
C23_Witness ==
    \E known, unknown \in Emails :
        /\ get_user_by_email(ACur, known) # NoRecord
        /\ get_user_by_email(ACur, unknown) = NoRecord
        /\ WithoutAccount(ACur, known) # ACur
        /\ forgot_password(ACur, known, clock).ret.status_code = 200
        /\ forgot_password(ACur, unknown, clock).ret.status_code = 200


----
\* Properties of the provider login

\* The state values not issued so far
FreshStates ==
    {state \in OAuthStates :
        /\ state \notin DOMAIN oauth_sessions
        /\ \A i \in 1..Len(responses) : responses[i].state # state
        /\ \A t \in BagToSet(tasks) : t.state # state}

\* C24: a flow state is stored when an authorization URL is issued; it is absent
\* from the flow-state store once any callback carrying that state has finished,
\* whatever the outcome; and a callback (with a code) whose state is not in the
\* store is rejected with 400 and mints no tokens.
C24_FlowStateConsumedByCallback ==
    /\ \A state \in FreshStates, redirect_url \in RedirectUrls :
          LET r == google_login_start(ACur, state, [verifier_of |-> state], redirect_url)
          IN  r.ret.status_code = 200 => r.ret.body.state \in DOMAIN r.st.oauth_sessions
    /\ \A i \in 1..Len(responses) : responses[i].state \notin DOMAIN oauth_sessions
    /\ \A request \in CallbackRequests :
          (request.code # None /\ request.state \notin DOMAIN oauth_sessions)
          => LET r == google_oauth_callback(ACur, request)
             IN  /\ r.ret = Response(400, NoRecord)
                 /\ r.st.oauth_sessions = oauth_sessions
                 /\ r.st.db_users = db_users


\* C25: each issued flow state yields at most one successful callback: no two
\* finished callbacks carrying the same state have both returned a token pair,
\* also when one was processed while the other was suspended in the token
\* exchange or the user-info call.
C25_AtMostOneSuccessPerFlowState ==
    \A i, j \in 1..Len(responses) :
        (i # j /\ responses[i].state = responses[j].state)
        => ~(responses[i].tokens /\ responses[j].tokens)

\* The account's password was chosen by its owner: it is set and it is not the
\* one hashed for accounts created by the provider login
OwnPassword(u) ==
    /\ u.hashed_password # NoRecord
    /\ u.hashed_password # hash_password(oauth_user_no_password)

\* C26: unlinking is rejected for an account created by the provider login that
\* has not set a password of its own; a successful unlink clears the stored
\* external id; and no account is left with neither an external identity nor a
\* password chosen by its owner.
C26_UnlinkKeepsAWayIn ==
    /\ \A token \in PresentedTokens :
          LET current_user == get_current_user_from_token(ACur, token, clock)
              r == unlink_google_account(ACur, token, clock)
          IN  current_user.status_code = 200 =>
                /\ (current_user.body.created_via_oauth /\ ~OwnPassword(current_user.body))
                   => (r.ret.status_code = 400 /\ r.st = ACur)
                /\ r.ret.status_code = 200
                   => get_user_by_id(r.st, current_user.body.id).google_id = None
    /\ \A u \in db_users : u.google_id # None \/ OwnPassword(u)


----
\* Properties of the services with the cache unavailable

\* The newest rows of session s that are not deleted, at most limit of them, in
\* the real-time shape
NewestStored(s, limit) ==
    LET rows == offset_limit(order_by_created_at(session_rows(db_messages, s), "desc"),
                             0, limit)
    IN  [i \in 1..Len(rows) |-> to_websocket_format(rows[i])]

\* What the cache operations return and what the gateway does without a cache
CacheDownDefaults ==
    /\ ~connected(redis)
    /\ \A s \in SessionIds :
          /\ smembers(redis, s) = {} /\ scard(redis, s) = 0
          /\ redis.recent[s] = <<>> /\ ~redis.stats[s].present
          /\ sadd(redis, s, "p1") = redis
          /\ cache_recent_messages(redis, s, <<>>, clock) = redis
    /\ \A p \in ParticipantIds : ~redis.status[p].present
    /\ \A id \in StoredIds : get_cached_message(redis, id, clock) = NoRecord
    /\ \A sid \in Sids :
          Connected(sid) =>
            /\ \A d \in JoinPayloads(sid) :
                  all_present(d.session_id, d.participant_id, d.nickname)
                  => LET r == Outcome("join_session", sid, d)
                     IN  /\ r.t.pc = "done"
                         /\ Len(OfEvent(r.evs, "session_joined")) = 1
                         /\ OfEvent(r.evs, "error") = <<>>
            /\ \A h \in {"leave_session", "heartbeat"} :
                  LET r == Outcome(h, sid, None)
                  IN  r.t.pc = "done" /\ OfEvent(r.evs, "error") = <<>>
            /\ Bound(sid) =>
                  /\ Len(OfEvent(Outcome("heartbeat", sid, None).evs, "heartbeat_ack")) = 1
                  /\ \A d \in SendInputs :
                        (d.db_ok /\ ~Blank(strip(d.message)) /\ validate_content(strip(d.message))
                         /\ validate_nickname(active_connections[sid].nickname))
                        => LET r == Outcome("send_message", sid, d)
                           IN  /\ r.t.pc = "done"
                               /\ Len(r.st.db_messages) = Len(db_messages) + 1
                               /\ Len(OfEvent(r.evs, "new_message")) = 1

\* What list, recent, stats and delete return without a cache
CacheDownReads ==
    \A s \in SessionIds :
        /\ \A limit \in Limits :
              get_recent_messages(Cur, s, limit, clock).ret = NewestStored(s, limit)
        /\ \A page \in Pages, page_size \in PageSizes :
              LET r == get_session_messages(Cur, s, page, page_size, "asc")
                  rows == offset_limit(order_by_created_at(session_rows(db_messages, s),
                                                           "asc"),
                                       page_offset(page, page_size), page_size)
              IN  /\ r.total_count = Len(session_rows(db_messages, s))
                  /\ r.messages = [i \in 1..Len(rows) |-> MessageResponse(to_dict(rows[i]))]
        /\ get_message_stats(Cur, s, clock).ret.total_messages
              = Len(session_rows(db_messages, s))
        /\ \A id \in LiveIn(s) :
              LET r == delete_message(Cur, id, Row(id).participant_id, clock)
              IN  r.ret = TRUE /\ r.st.db_messages[CHOOSE i \in 1..Len(db_messages) :
                                                      db_messages[i].id = id].is_deleted

\* C27: with the cache unavailable no cache operation raises and each returns its
\* default; the gateway's join, leave, heartbeat and send_message and the message
\* service's create, list, recent, get-by-id, update, delete and stats still
\* complete, and the message reads return exactly what storage holds: get-by-id
\* returns every stored message that is not deleted, and update returns the
\* updated message.
C27_CacheDownStillServes ==
    /\ CacheDownDefaults
    /\ CacheDownReads
    /\ \A id \in StoredIds :
          Live(id) =>
            /\ get_message(Cur, id, clock).ret = MessageResponse(to_dict(Row(id)))
            /\ update_message(Cur, id, Row(id).participant_id, <<"b">>, clock).ret # NoRecord


----
\* Properties of the migration tool

\* the commands the tool knows
MigrateCommands == {"upgrade", "downgrade", "current", "history", "revision", "reset"}

\* an engine run of the finished process ended with a failure
EngineFailed == \E i \in 1..Len(migrate.calls) : migrate.engine[i] = "failed"

\* the process exits non-zero without a known command
UnknownCommandExits ==
    (migrate.present /\ migrate.pc = "exited")
    => ((Len(migrate.argv) < 2 \/ migrate.argv[2] \notin MigrateCommands)
        => migrate.exit # 0 /\ migrate.calls = <<>>)

\* C28: the tool exits non-zero for an unknown command and whenever an engine run
\* fails, whatever the command; upgrade runs the engine with head, downgrade with
\* the given revision or -1, and a confirmed reset with base and then with head.
C28_MigrateExitsAndTargets ==
    (migrate.present /\ migrate.pc = "exited")
    => /\ UnknownCommandExits
       /\ EngineFailed => migrate.exit # 0
       /\ Len(migrate.argv) >= 2 =>
            LET command == migrate.argv[2]
                calls == migrate.calls
            IN  /\ command = "upgrade" => calls = << <<"alembic", "upgrade", "head">> >>
                /\ command = "downgrade" =>
                     calls = << <<"alembic", "downgrade",
                                  IF Len(migrate.argv) > 2 THEN migrate.argv[3]
                                  ELSE "-1">> >>
                /\ (command = "reset" /\ lower(migrate.confirm) = "y") =>
                     /\ calls # <<>> /\ calls[1] = <<"alembic", "downgrade", "base">>
                     /\ migrate.engine[1] = "ok" =>
                          Len(calls) = 2 /\ calls[2] = <<"alembic", "upgrade", "head">>


----
\* Properties of the join links

\* base URL + /join/ + exactly CodeLen characters over A-Z0-9
IsJoinUrl(s) ==
    /\ Len(s) = Len(join_prefix) + CodeLen
    /\ startswith(s, join_prefix)
    /\ \A i \in (Len(join_prefix) + 1)..Len(s) : s[i] \in UpperChars \cup DigitChars

\* every text that is not a join link is answered with None
OnlyJoinUrlsVerified ==
    (qr.present /\ qr.pc = "verified" /\ ~IsJoinUrl(qr.qr_data)) => qr.ret = NoRecord

\* C29: the join link made of a session code verifies to that code, for every code
\* of six characters over A-Z0-9, all-digit codes included; a text that is not the
\* base URL + /join/ + exactly six such characters verifies to None.
C29_JoinUrlRoundTrip ==
    (qr.present /\ qr.pc = "verified")
    => /\ qr.code # <<>> => qr.ret = Code(qr.code)
       /\ IsJoinUrl(qr.qr_data)
          => qr.ret = Code(SubSeq(qr.qr_data, Len(join_prefix) + 1, Len(qr.qr_data)))
       /\ OnlyJoinUrlsVerified


----
\* Properties of the participant-count event

\* Every participant_count_updated event that handling event h of connection sid
\* emits carries the size the session's presence member set has when the handler ends
CountsAsLeft(h, sid, data) ==
    LET r == Outcome(h, sid, data)
        evs == OfEvent(r.evs, "participant_count_updated")
    IN  \A i \in 1..Len(evs) :
           evs[i].total_count = Cardinality(smembers(r.st.redis, evs[i].session_id))

\* C30: every participant_count_updated event emitted on join, leave or disconnect
\* carries a total_count equal to the size of the session's presence member set as
\* it stands once the emitting handler has finished; the count emitted on
\* disconnect does not include the disconnecting participant.
C30_CountMatchesPresenceSet ==
    \A sid \in Sids :
        Connected(sid) =>
            /\ \A d \in JoinPayloads(sid) : CountsAsLeft("join_session", sid, d)
            /\ CountsAsLeft("leave_session", sid, None)
            /\ CountsAsLeft("disconnect", sid, None)


----
\* Properties of the recent-message cache

\* C31: with every message created with durable storage enabled, recent(session,
\* limit) returns exactly the newest min(limit, number of stored messages of the
\* session that are not deleted) such messages, newest first, after any sequence of
\* create, update, delete and recent calls with any limits, whether the answer
\* comes from the recent-message cache or from storage.
C31_RecentEqualsNewestStored ==
    \A limit \in Limits :
        get_recent_messages(Cur, "s1", limit, clock).ret = NewestStored("s1", limit)


----
\* Properties of update_message

\* C32: update_message returns absent only when no row was modified: whenever a row
\* with the given id and participant id exists that is not deleted, the call
\* returns the updated message, with the new text as content, the edited flag true
\* and the edit counter increased by exactly one.
C32_UpdateReturnsUpdatedMessage ==
    \A id \in StoredIds, p \in ParticipantIds :
        (Live(id) /\ Row(id).participant_id = p)
        => LET r == update_message(Cur, id, p, <<"b">>, clock)
           IN  /\ r.ret # NoRecord
               /\ r.ret.message = <<"b">>
               /\ r.ret.is_edited
               /\ r.ret.edit_count = Row(id).edit_count + 1


----
\* Properties of get-by-id

\* C33: get-by-id returns a message exactly when storage holds a row with that id
\* that is not deleted, and the returned content is that row's current content,
\* whether the answer comes from the per-message cache or from storage: on the
\* first read with a cold cache and after an update, a delete or a bulk clear.
C33_GetByIdEqualsStorage ==
    \A id \in MessageIds :
        LET r == get_message(Cur, id, clock)
        IN  /\ (r.ret # NoRecord) <=> Live(id)
            /\ Live(id) => r.ret.message = Row(id).content


----
\* Properties of generate_session_code

\* The request of user u is inside generate_session_code
Generating(u) == InFlight(u) /\ TaskOf(u).pc \in {"loop", "queried"}

\* generate_session_code has returned code to the request of user u
Returned(u, code) ==
    InFlight(u) /\ TaskOf(u).pc = "returned" /\ TaskOf(u).code = code

\* A code that no stored session has
SomeCodeUnused == \E code \in CodeDraws : get_session_by_code(SCur, code) = NoRecord

\* A generator that runs while a code is not in use returns, unless the other
\* requests use up the codes first
GeneratorTerminates ==
    \A u \in Users : (Generating(u) /\ SomeCodeUnused) ~> (~Generating(u) \/ ~SomeCodeUnused)

\* C34 as stated: generate_session_code terminates whenever a code is not yet in
\* use (under fair random choice), and the code it returns is not the code of any
\* session stored at the time it returns.
C34_GeneratorTerminatesWithUnusedCode ==
    /\ GeneratorTerminates
    /\ [][\A u \in Users, code \in CodeDraws :
            (~Returned(u, code) /\ Returned(u, code)')
            => (get_session_by_code(SCur, code) = NoRecord)']_vars

\* C34 amended: generate_session_code terminates whenever a code is not yet in use
\* (under fair random choice), and the code it returns was not the code of any
\* session stored when the generator queried storage for it: the query's result is
\* whether a stored session has the code, and the code is returned only when the
\* query found none.
C34_GeneratorTerminatesWithCodeUnusedAtQuery ==
    /\ GeneratorTerminates
    /\ [][\A u \in Users, code \in CodeDraws :
            /\ (Generating(u)' /\ TaskOf(u)'.pc = "queried" /\ TaskOf(u)'.code = code
                /\ ~(Generating(u) /\ TaskOf(u).pc = "queried"))
               => (TaskOf(u)'.existing = NoRecord
                   <=> \A x \in db_sessions : x.session_code # code)
            /\ (~Returned(u, code) /\ Returned(u, code)')
               => TaskOf(u).existing = NoRecord]_vars

\* A generator has returned a code that another request stored after the generator
\* had queried storage, and the request that got it was answered 500
C34_Witness ==
    \E i \in 1..Len(responses) :
        /\ responses[i].status_code = 500
        /\ \E x \in db_sessions : x.session_code = responses[i].code


----
\* Properties of the gateway status probe

\* C35: the status probe reports total_connections equal to the number of
\* connections that have connected and not yet disconnected, and an active room
\* count equal to the number of sessions that have at least one bound connection,
\* after any sequence of connect, join, leave and disconnect events.
C35_StatusProbeCounts ==
    /\ websocket_status(Cur).total_connections
          = Cardinality({sid \in Sids : Connected(sid)})
    /\ websocket_status(Cur).active_sessions
          = Cardinality({s \in SessionIds : BoundTo(s) # {}})


----
\* Properties of interleaved handlers of one connection

\* The states in which two handlers that are under way can both have finished,
\* over every order of their remaining steps
RECURSIVE Finals(_, _, _)
Finals(st, t1, t2) ==
    IF t1.pc = "done" /\ t2.pc = "done" THEN {st}
    ELSE (IF t1.pc = "done" THEN {}
          ELSE LET r == handler_step(st, clock, t1) IN Finals(r.st, r.t, t2))
         \cup
         (IF t2.pc = "done" THEN {}
          ELSE LET r == handler_step(st, clock, t2) IN Finals(r.st, t1, r.t))

\* The join requests of connection sid in the interleaved runs
ConnJoins(sid) ==
    [session_id : SessionIds, nickname : {"ann"},
     participant_id : {IF sid = "c1" THEN "p1" ELSE "p2"}]

\* With no handler under way, the room sets and the bindings agree
SettledRoomsAgree ==
    tasks = EmptyBag
    => \A sid \in Sids, s \in SessionIds :
          InRoomSet(session_rooms, s, sid) <=> sid \in BoundTo(s)

\* leave_session has started on a bound connection and a join_session for another
\* session follows at once: in the end the connection is bound to that session
LeaveThenJoinEndsJoined ==
    \A sid \in Sids :
        (tasks = EmptyBag /\ Connected(sid) /\ Bound(sid)) =>
            LET l == handler_step(Cur, clock, Task("leave_session", sid, None))
            IN  \A d \in ConnJoins(sid) :
                    d.session_id # active_connections[sid].session_id =>
                        \A f \in Finals(l.st, l.t, Task("join_session", sid, d)) :
                            f.active_connections[sid].session_id = d.session_id

\* join_session is under way when the connection's disconnect is processed: in the
\* end the connection is in no room set and its participant has no presence record
DisconnectDuringJoinTearsDown ==
    \A sid \in Sids :
        (tasks = EmptyBag /\ Connected(sid)) =>
            \A d \in ConnJoins(sid) :
                LET j == handler_step(Cur, clock, Task("join_session", sid, d))
                IN  \A f \in Finals(j.st, j.t, Task("disconnect", sid, None)) :
                        \A s \in SessionIds :
                            /\ ~InRoomSet(f.session_rooms, s, sid)
                            /\ (d.participant_id \in smembers(f.redis, s)
                                => \E c \in DOMAIN f.active_connections :
                                      /\ f.active_connections[c].session_id = s
                                      /\ f.active_connections[c].participant_id
                                            = d.participant_id)

\* C36: for every interleaving of the join_session, leave_session and disconnect
\* handlers of one connection at their awaits, once all handlers have finished the
\* binding and the room sets agree: a leave_session followed at once by a
\* join_session for another session ends with the connection bound to the newly
\* joined session, and a disconnect processed while a join_session is under way
\* ends with the connection in no room set and with no presence record.
C36_InterleavedHandlersAgree ==
    /\ SettledRoomsAgree
    /\ LeaveThenJoinEndsJoined
    /\ DisconnectDuringJoinTearsDown


----
\* Properties of the presence member sets

\* The participant ids of the connections bound to session s
BoundParticipants(s) == {active_connections[sid].participant_id : sid \in BoundTo(s)}

\* C37: TTL expiry aside, after any sequence of gateway events the presence member
\* set of each session equals the set of participant ids of the connections bound
\* to that session, also when two connections join with the same participant id and
\* one of them leaves, and when a bound connection joins a second session without
\* leaving the first.
C37_PresenceSetIsBoundParticipants ==
    \A s \in SessionIds : smembers(redis, s) = BoundParticipants(s)


----
\* Properties of the session lifecycle fields

\* A session that was updated with is_active supplied and never activated
ActiveUnstarted(session) == session.is_active /\ session.started_at = NoTime

\* A session that was deactivated and never activated
EndedUnstarted(session) == session.ended_at # NoTime /\ session.started_at = NoTime

ActiveSessionsStarted == \A session \in db_sessions : ~ActiveUnstarted(session)

EndedSessionsStarted == \A session \in db_sessions : ~EndedUnstarted(session)

\* C38: in every reachable state a session whose active flag is true has
\* started_at set, and a session with ended_at set has started_at set, for every
\* sequence of create, update (including an update that supplies is_active),
\* activate and deactivate.
C38_LifecycleTimestampsConsistent ==
    /\ ActiveSessionsStarted
    /\ EndedSessionsStarted


----
\* Properties of password login for accounts created by the provider login

\* Password values someone other than the owner of an account knows: the ones
\* other people use, and the value written in app/api/oauth.py
KnownPasswords == Passwords \cup {oauth_user_no_password}

\* Login of account u with the password is refused, whatever the token encoder
LoginRefused(u, password) ==
    \A json_encoder \in JsonEncoders :
        login(ACur, u.email, password, clock, json_encoder).ret.status_code = 401

\* The accounts created by the provider callback; none of the requests made here
\* is change-password or reset-password, so none of their owners has set a password
CreatedByCallback == {u \in db_users : u.created_via_oauth}

OtherPasswordsRefused ==
    \A u \in CreatedByCallback, password \in Passwords : LoginRefused(u, password)

\* C39: an account created by the identity-provider callback cannot be signed
\* into through password login with any password until its owner has set one
\* through change-password or reset-password: no password value known to someone
\* other than the owner makes login succeed for it.
C39_NoPasswordLoginForProviderAccounts ==
    \A u \in CreatedByCallback, password \in KnownPasswords : LoginRefused(u, password)


====
